---- MODULE Spec2Model ----
(***************************************************************************)
(* Issues, merge requests and the merge executor of soft-serve.            *)
(*                                                                         *)
(* The database tables are functions from row id to row; every store       *)
(* method is one SQL statement and is modelled as an operator from table   *)
(* to table.  Backend methods that run one transaction are one action.     *)
(* Backend.MergeMergeRequest spans a read transaction, two git commands    *)
(* and a write transaction, and is modelled as one action per step so      *)
(* that concurrent calls interleave between the steps.                     *)
(***************************************************************************)
EXTENDS Integers, Sequences, FiniteSets, TLC

\* ------------------------------------------------------------------ bounds
MaxRacedMR == 1     \* merge requests created while merges run concurrently
MaxIssue == 2       \* issues created
MaxTime == 2        \* values CURRENT_TIMESTAMP takes
NumCalls == 2       \* MergeMergeRequest invocations in flight at once
MaxTracked == 1     \* issues, and merge requests, followed through their whole life
MaxDepIssue == 3    \* issues created while dependency edges are added and removed
MaxStored == 2      \* issues, and merge requests, created while the store is read
MaxCrossedMR == 2   \* merge requests of one repository merged at the same time

\* ------------------------------------------------------------- input sets
Repos == {1, 2}                    \* ids of the repositories that exist
Users == {1, 2}                    \* ids of the users that exist
Branches == {"main", "feature"}
Titles == {"", "T"}
Calls == 1 .. NumCalls

\* proto.UserFromContext: <<>> is the nil user, <<u>> the user u
CtxUsers == {<<>>} \cup {<<u>> : u \in Users}

\* --------------------------------------------------------------- the model
MergeRequestStateOpen == 0
MergeRequestStateMerged == 1
MergeRequestStateClosed == 2

MergeRequestStates ==
    {MergeRequestStateOpen, MergeRequestStateMerged, MergeRequestStateClosed}

IssueStateOpen == 0
IssueStateClosed == 1
IssueStates == {IssueStateOpen, IssueStateClosed}

\* sql.NullInt64 and sql.NullTime
NullInt64 == [Valid |-> FALSE, Int64 |-> 0]
SomeInt64(v) == [Valid |-> TRUE, Int64 |-> v]
NullTime == [Valid |-> FALSE, Time |-> 0]
SomeTime(t) == [Valid |-> TRUE, Time |-> t]

VARIABLES
    merge_requests,   \* table merge_requests: id -> row
    mrSeq,            \* last id the table's AUTOINCREMENT handed out
    issues,           \* table issues: id -> row
    issueSeq,         \* last id the table's AUTOINCREMENT handed out
    issue_dependencies, \* table issue_dependencies: <<issue_id, depends_on_id>> -> rows
    now,              \* CURRENT_TIMESTAMP
    refs,             \* refs[r]: the branches refs/heads/* of repository r
    HEAD,             \* HEAD[r]: the branch checked out in r's working tree
    calls,            \* calls[c]: one invocation of Backend.MergeMergeRequest
    last              \* the last single-transaction operation and what it returned

vars == <<merge_requests, mrSeq, issues, issueSeq, issue_dependencies, now,
          refs, HEAD, calls, last>>

dbVars == <<merge_requests, mrSeq, issues, issueSeq, issue_dependencies>>
issueVars == <<issues, issueSeq, issue_dependencies>>
mrVars == <<merge_requests, mrSeq>>
gitVars == <<refs, HEAD>>

\* ------------------------------------------------------ mergeRequestStore

\* The query below without "repo_id = ?" in its WHERE clause.
mergeRequestStore_GetMergeRequestByID_anyRepo(tbl, repoID, id) ==
    IF id \in DOMAIN tbl THEN <<tbl[id]>> ELSE <<>>

\* SELECT * FROM merge_requests WHERE repo_id = ? AND id = ?
\* <<>> stands for sql.ErrNoRows, <<row>> for the row found
mergeRequestStore_GetMergeRequestByID(tbl, repoID, id) ==
    IF id \in DOMAIN tbl /\ tbl[id].repo_id = repoID THEN <<tbl[id]>> ELSE <<>>

\* SELECT * FROM merge_requests WHERE repo_id = ? ORDER BY created_at DESC:
\* the ids of the rows selected (the order among rows of one created_at is
\* the database's)
mergeRequestStore_GetMergeRequestsByRepoID(tbl, repoID) ==
    {i \in DOMAIN tbl : tbl[i].repo_id = repoID}

\* The query below without "repo_id = ?" in its WHERE clause.
mergeRequestStore_GetMergeRequestsByRepoIDAndState_anyRepo(tbl, repoID, state) ==
    {i \in DOMAIN tbl : tbl[i].state = state}

\* SELECT * FROM merge_requests WHERE repo_id = ? AND state = ? ORDER BY created_at DESC
mergeRequestStore_GetMergeRequestsByRepoIDAndState(tbl, repoID, state) ==
    {i \in DOMAIN tbl : tbl[i].repo_id = repoID /\ tbl[i].state = state}

\* INSERT INTO merge_requests (...) VALUES (..., CURRENT_TIMESTAMP); the row takes
\* the column defaults: created_at CURRENT_TIMESTAMP, the nullable columns NULL
mergeRequestStore_CreateMergeRequest(tbl, id, repoID, authorID, title, description, sourceBranch, targetBranch, t) ==
    [i \in DOMAIN tbl \cup {id} |->
        IF i = id
        THEN [repo_id |-> repoID, title |-> title, description |-> description,
              source_branch |-> sourceBranch, target_branch |-> targetBranch,
              state |-> MergeRequestStateOpen, author_id |-> authorID,
              merged_by |-> NullInt64, merged_at |-> NullTime,
              closed_by |-> NullInt64, closed_at |-> NullTime,
              created_at |-> t, updated_at |-> t]
        ELSE tbl[i]]

\* The statement below with "state = 0" added to its SET clause.
mergeRequestStore_UpdateMergeRequest_resetsState(tbl, repoID, id, title, description, t) ==
    [i \in DOMAIN tbl |->
        IF i = id /\ tbl[i].repo_id = repoID
        THEN [tbl[i] EXCEPT !.title = title, !.description = description,
                            !.updated_at = t, !.state = MergeRequestStateOpen]
        ELSE tbl[i]]

\* UPDATE merge_requests SET title, description, updated_at WHERE repo_id = ? AND id = ?
mergeRequestStore_UpdateMergeRequest(tbl, repoID, id, title, description, t) ==
    [i \in DOMAIN tbl |->
        IF i = id /\ tbl[i].repo_id = repoID
        THEN [tbl[i] EXCEPT !.title = title, !.description = description, !.updated_at = t]
        ELSE tbl[i]]

\* The statement below without "AND state = ?" in its WHERE clause.
mergeRequestStore_MergeMergeRequest_unguarded(tbl, repoID, id, mergedBy, t) ==
    [i \in DOMAIN tbl |->
        IF i = id /\ tbl[i].repo_id = repoID
        THEN [tbl[i] EXCEPT !.state = MergeRequestStateMerged,
                            !.merged_by = SomeInt64(mergedBy),
                            !.merged_at = SomeTime(t), !.updated_at = t]
        ELSE tbl[i]]

\* UPDATE merge_requests SET state = Merged, merged_by, merged_at, updated_at
\* WHERE repo_id = ? AND id = ? AND state = Open
mergeRequestStore_MergeMergeRequest(tbl, repoID, id, mergedBy, t) ==
    [i \in DOMAIN tbl |->
        IF i = id /\ tbl[i].repo_id = repoID /\ tbl[i].state = MergeRequestStateOpen
        THEN [tbl[i] EXCEPT !.state = MergeRequestStateMerged,
                            !.merged_by = SomeInt64(mergedBy),
                            !.merged_at = SomeTime(t), !.updated_at = t]
        ELSE tbl[i]]

\* The statement below without "AND state = ?" in its WHERE clause.
mergeRequestStore_CloseMergeRequest_unguarded(tbl, repoID, id, closedBy, t) ==
    [i \in DOMAIN tbl |->
        IF i = id /\ tbl[i].repo_id = repoID
        THEN [tbl[i] EXCEPT !.state = MergeRequestStateClosed,
                            !.closed_by = SomeInt64(closedBy),
                            !.closed_at = SomeTime(t), !.updated_at = t]
        ELSE tbl[i]]

\* UPDATE merge_requests SET state = Closed, closed_by, closed_at, updated_at
\* WHERE repo_id = ? AND id = ? AND state = Open
mergeRequestStore_CloseMergeRequest(tbl, repoID, id, closedBy, t) ==
    [i \in DOMAIN tbl |->
        IF i = id /\ tbl[i].repo_id = repoID /\ tbl[i].state = MergeRequestStateOpen
        THEN [tbl[i] EXCEPT !.state = MergeRequestStateClosed,
                            !.closed_by = SomeInt64(closedBy),
                            !.closed_at = SomeTime(t), !.updated_at = t]
        ELSE tbl[i]]

\* The update below without the state in its WHERE clause.
mergeRequestStore_ReopenMergeRequest_unguarded(tbl, repoID, id, t) ==
    [i \in DOMAIN tbl |->
        IF i = id /\ tbl[i].repo_id = repoID
        THEN [tbl[i] EXCEPT !.state = MergeRequestStateOpen,
                            !.closed_by = NullInt64,
                            !.closed_at = NullTime, !.updated_at = t]
        ELSE tbl[i]]

\* UPDATE merge_requests SET state = Open, closed_by = NULL, closed_at = NULL, updated_at
\* WHERE repo_id = ? AND id = ? AND state = Closed
mergeRequestStore_ReopenMergeRequest(tbl, repoID, id, t) ==
    [i \in DOMAIN tbl |->
        IF i = id /\ tbl[i].repo_id = repoID /\ tbl[i].state = MergeRequestStateClosed
        THEN [tbl[i] EXCEPT !.state = MergeRequestStateOpen,
                            !.closed_by = NullInt64,
                            !.closed_at = NullTime, !.updated_at = t]
        ELSE tbl[i]]

\* DELETE FROM merge_requests WHERE repo_id = ? AND id = ?
mergeRequestStore_DeleteMergeRequest(tbl, repoID, id) ==
    [i \in {j \in DOMAIN tbl : ~(j = id /\ tbl[j].repo_id = repoID)} |-> tbl[i]]

\* The number of rows a statement changed or removed (sql.Result.RowsAffected):
\* every UPDATE above sets updated_at, so a matched row is counted even when
\* its other columns keep their values.  The store methods discard it.
RowsAffected(tbl, repoID, id, states) ==
    IF id \in DOMAIN tbl /\ tbl[id].repo_id = repoID /\ tbl[id].state \in states
    THEN 1 ELSE 0

\* -------------------------------------------------------------- issueStore

\* SELECT * FROM issues WHERE repo_id = ? AND id = ?
issueStore_GetIssueByID(tbl, repoID, id) ==
    IF id \in DOMAIN tbl /\ tbl[id].repo_id = repoID THEN <<tbl[id]>> ELSE <<>>

\* SELECT * FROM issues WHERE repo_id = ? ORDER BY created_at DESC: the ids of
\* the rows selected
issueStore_GetIssuesByRepoID(tbl, repoID) ==
    {i \in DOMAIN tbl : tbl[i].repo_id = repoID}

\* SELECT * FROM issues WHERE repo_id = ? AND state = ? ORDER BY created_at DESC
issueStore_GetIssuesByRepoIDAndState(tbl, repoID, state) ==
    {i \in DOMAIN tbl : tbl[i].repo_id = repoID /\ tbl[i].state = state}

\* The INSERT below with models.IssueStateClosed as its state argument.
issueStore_CreateIssue_closed(tbl, id, repoID, authorID, title, description, t) ==
    [i \in DOMAIN tbl \cup {id} |->
        IF i = id
        THEN [repo_id |-> repoID, title |-> title, description |-> description,
              state |-> IssueStateClosed, author_id |-> authorID,
              closed_by |-> NullInt64, closed_at |-> NullTime,
              created_at |-> t, updated_at |-> t]
        ELSE tbl[i]]

\* INSERT INTO issues (repo_id, author_id, title, description, state, updated_at)
issueStore_CreateIssue(tbl, id, repoID, authorID, title, description, t) ==
    [i \in DOMAIN tbl \cup {id} |->
        IF i = id
        THEN [repo_id |-> repoID, title |-> title, description |-> description,
              state |-> IssueStateOpen, author_id |-> authorID,
              closed_by |-> NullInt64, closed_at |-> NullTime,
              created_at |-> t, updated_at |-> t]
        ELSE tbl[i]]

\* The update below without "repo_id = ?" in its WHERE clause.
issueStore_UpdateIssue_anyRepo(tbl, repoID, id, title, description, t) ==
    [i \in DOMAIN tbl |->
        IF i = id
        THEN [tbl[i] EXCEPT !.title = title, !.description = description, !.updated_at = t]
        ELSE tbl[i]]

\* The update below with updated_at left out of its SET clause.
issueStore_UpdateIssue_keepsUpdatedAt(tbl, repoID, id, title, description, t) ==
    [i \in DOMAIN tbl |->
        IF i = id /\ tbl[i].repo_id = repoID
        THEN [tbl[i] EXCEPT !.title = title, !.description = description]
        ELSE tbl[i]]

\* UPDATE issues SET title, description, updated_at WHERE repo_id = ? AND id = ?
issueStore_UpdateIssue(tbl, repoID, id, title, description, t) ==
    [i \in DOMAIN tbl |->
        IF i = id /\ tbl[i].repo_id = repoID
        THEN [tbl[i] EXCEPT !.title = title, !.description = description, !.updated_at = t]
        ELSE tbl[i]]

\* The update below without the state in its WHERE clause.
issueStore_CloseIssue_unguarded(tbl, repoID, id, closedBy, t) ==
    [i \in DOMAIN tbl |->
        IF i = id /\ tbl[i].repo_id = repoID
        THEN [tbl[i] EXCEPT !.state = IssueStateClosed,
                            !.closed_by = SomeInt64(closedBy),
                            !.closed_at = SomeTime(t), !.updated_at = t]
        ELSE tbl[i]]

\* UPDATE issues SET state = Closed, closed_by, closed_at, updated_at
\* WHERE repo_id = ? AND id = ? AND state = Open
issueStore_CloseIssue(tbl, repoID, id, closedBy, t) ==
    [i \in DOMAIN tbl |->
        IF i = id /\ tbl[i].repo_id = repoID /\ tbl[i].state = IssueStateOpen
        THEN [tbl[i] EXCEPT !.state = IssueStateClosed,
                            !.closed_by = SomeInt64(closedBy),
                            !.closed_at = SomeTime(t), !.updated_at = t]
        ELSE tbl[i]]

\* The statement below without "closed_by = NULL" in its SET clause.
issueStore_ReopenIssue_keepsClosedBy(tbl, repoID, id, t) ==
    [i \in DOMAIN tbl |->
        IF i = id /\ tbl[i].repo_id = repoID /\ tbl[i].state = IssueStateClosed
        THEN [tbl[i] EXCEPT !.state = IssueStateOpen,
                            !.closed_at = NullTime, !.updated_at = t]
        ELSE tbl[i]]

\* UPDATE issues SET state = Open, closed_by = NULL, closed_at = NULL, updated_at
\* WHERE repo_id = ? AND id = ? AND state = Closed
issueStore_ReopenIssue(tbl, repoID, id, t) ==
    [i \in DOMAIN tbl |->
        IF i = id /\ tbl[i].repo_id = repoID /\ tbl[i].state = IssueStateClosed
        THEN [tbl[i] EXCEPT !.state = IssueStateOpen,
                            !.closed_by = NullInt64,
                            !.closed_at = NullTime, !.updated_at = t]
        ELSE tbl[i]]

\* DELETE FROM issues WHERE repo_id = ? AND id = ?
issueStore_DeleteIssue(tbl, repoID, id) ==
    [i \in {j \in DOMAIN tbl : ~(j = id /\ tbl[j].repo_id = repoID)} |-> tbl[i]]

\* ------------------------------------------- issueStore: issue_dependencies
\* The rows of issue_dependencies differ from one another in id and created_at
\* only, which no query reads: the table is the number of rows it holds for
\* each <<issue_id, depends_on_id>>, and the pairs it holds no row for are not
\* in its domain.
EdgeCount(deps, e) == IF e \in DOMAIN deps THEN deps[e] ELSE 0

TotalRows(deps) ==
    LET RECURSIVE Sum(_)
        Sum(S) == IF S = {} THEN 0
                  ELSE LET e == CHOOSE x \in S : TRUE IN deps[e] + Sum(S \ {e})
    IN  Sum(DOMAIN deps)

\* depends_on_id_fk left out of the cascade below.
CascadeDelete_issueIdOnly(deps, tbl) ==
    [e \in {x \in DOMAIN deps : x[1] \in DOMAIN tbl} |-> deps[e]]

\* issue_id_fk and depends_on_id_fk, ON DELETE CASCADE: the rows that remain
\* when the issues table becomes tbl
CascadeDelete(deps, tbl) ==
    [e \in {x \in DOMAIN deps : x[1] \in DOMAIN tbl /\ x[2] \in DOMAIN tbl} |-> deps[e]]

\* SELECT COUNT(*) FROM issues WHERE repo_id = ? AND (id = ? OR id = ?)
CountIssues(tbl, repoID, ids) ==
    Cardinality({i \in DOMAIN tbl : tbl[i].repo_id = repoID /\ i \in ids})

\* INSERT INTO issue_dependencies (issue_id, depends_on_id) VALUES (?, ?)
InsertDependency(deps, issueID, dependsOnID) ==
    [e \in DOMAIN deps \cup {<<issueID, dependsOnID>>} |->
        IF e = <<issueID, dependsOnID>> THEN EdgeCount(deps, e) + 1 ELSE deps[e]]

\* The table below with its foreign keys only.
InsertDependencyError_foreignKeysOnly(tbl, deps, issueID, dependsOnID) ==
    IF issueID \notin DOMAIN tbl THEN "issue_id_fk"
    ELSE IF dependsOnID \notin DOMAIN tbl THEN "depends_on_id_fk"
    ELSE "ok"

\* The constraint of the table that rejects the INSERT, "ok" when none does
InsertDependencyError(tbl, deps, issueID, dependsOnID) ==
    IF issueID = dependsOnID THEN "no_self_dependency"
    ELSE IF <<issueID, dependsOnID>> \in DOMAIN deps THEN "unique_dependency"
    ELSE IF issueID \notin DOMAIN tbl THEN "issue_id_fk"
    ELSE IF dependsOnID \notin DOMAIN tbl THEN "depends_on_id_fk"
    ELSE "ok"

\* The method below on a table without the unique_dependency constraint.
issueStore_AddIssueDependency_noUnique(tbl, deps, repoID, issueID, dependsOnID) ==
    IF CountIssues(tbl, repoID, {issueID, dependsOnID}) # 2
    THEN [err |-> "sql.ErrNoRows", deps |-> deps]
    ELSE [err |-> "ok", deps |-> InsertDependency(deps, issueID, dependsOnID)]

\* The method below without its count of the two issues: the foreign keys
\* alone decide.
issueStore_AddIssueDependency_noCount(tbl, deps, repoID, issueID, dependsOnID) ==
    LET err == InsertDependencyError(tbl, deps, issueID, dependsOnID)
    IN  IF err = "ok"
        THEN [err |-> "ok", deps |-> InsertDependency(deps, issueID, dependsOnID)]
        ELSE [err |-> err, deps |-> deps]

\* The method below refusing an edge whose reverse is in the table.
issueStore_AddIssueDependency_noMutual(tbl, deps, repoID, issueID, dependsOnID) ==
    IF CountIssues(tbl, repoID, {issueID, dependsOnID}) # 2
    THEN [err |-> "sql.ErrNoRows", deps |-> deps]
    ELSE LET err == IF <<dependsOnID, issueID>> \in DOMAIN deps THEN "cycle"
                    ELSE InsertDependencyError(tbl, deps, issueID, dependsOnID)
         IN  IF err = "ok"
             THEN [err |-> "ok", deps |-> InsertDependency(deps, issueID, dependsOnID)]
             ELSE [err |-> err, deps |-> deps]

\* issueStore.AddIssueDependency: the error it returns and the table it leaves
issueStore_AddIssueDependency(tbl, deps, repoID, issueID, dependsOnID) ==
    IF CountIssues(tbl, repoID, {issueID, dependsOnID}) # 2
    THEN [err |-> "sql.ErrNoRows", deps |-> deps]
    ELSE LET err == InsertDependencyError(tbl, deps, issueID, dependsOnID)
         IN  IF err = "ok"
             THEN [err |-> "ok", deps |-> InsertDependency(deps, issueID, dependsOnID)]
             ELSE [err |-> err, deps |-> deps]

\* The method below with "AND depends_on_id = ?" left out of its DELETE.
issueStore_RemoveIssueDependency_allOfIssue(tbl, deps, repoID, issueID, dependsOnID) ==
    IF CountIssues(tbl, repoID, {issueID}) = 0
    THEN [err |-> "sql.ErrNoRows", deps |-> deps]
    ELSE [err |-> "ok",
          deps |-> [e \in {x \in DOMAIN deps : x[1] # issueID} |-> deps[e]]]

\* issueStore.RemoveIssueDependency:
\* DELETE FROM issue_dependencies WHERE issue_id = ? AND depends_on_id = ?
issueStore_RemoveIssueDependency(tbl, deps, repoID, issueID, dependsOnID) ==
    IF CountIssues(tbl, repoID, {issueID}) = 0
    THEN [err |-> "sql.ErrNoRows", deps |-> deps]
    ELSE [err |-> "ok",
          deps |-> [e \in DOMAIN deps \ {<<issueID, dependsOnID>>} |-> deps[e]]]

\* The query below joined ON i.id = d.issue_id.
issueStore_GetIssueDependencies_wrongJoin(tbl, deps, repoID, issueID) ==
    {i \in DOMAIN tbl : tbl[i].repo_id = repoID /\ <<i, issueID>> \in DOMAIN deps}

\* SELECT i.* FROM issues i INNER JOIN issue_dependencies d ON i.id = d.depends_on_id
\* WHERE d.issue_id = ? AND i.repo_id = ?: the ids of the issues selected
issueStore_GetIssueDependencies(tbl, deps, repoID, issueID) ==
    {i \in DOMAIN tbl : tbl[i].repo_id = repoID /\ <<issueID, i>> \in DOMAIN deps}

\* The query below joined ON i.id = d.depends_on_id WHERE d.issue_id = ?.
issueStore_GetIssueDependents_wrongJoin(tbl, deps, repoID, issueID) ==
    {i \in DOMAIN tbl : tbl[i].repo_id = repoID /\ <<issueID, i>> \in DOMAIN deps}

\* SELECT i.* FROM issues i INNER JOIN issue_dependencies d ON i.id = d.issue_id
\* WHERE d.depends_on_id = ? AND i.repo_id = ?: the ids of the issues selected
issueStore_GetIssueDependents(tbl, deps, repoID, issueID) ==
    {i \in DOMAIN tbl : tbl[i].repo_id = repoID /\ <<i, issueID>> \in DOMAIN deps}

\* The method below without its count of the issue in the repository.
issueStore_HasIssueDependency_noCount(tbl, deps, repoID, issueID, dependsOnID) ==
    <<EdgeCount(deps, <<issueID, dependsOnID>>) > 0>>

\* issueStore.HasIssueDependency: <<>> stands for sql.ErrNoRows, <<b>> for the
\* boolean b returned with a nil error
issueStore_HasIssueDependency(tbl, deps, repoID, issueID, dependsOnID) ==
    IF CountIssues(tbl, repoID, {issueID}) = 0 THEN <<>>
    ELSE <<EdgeCount(deps, <<issueID, dependsOnID>>) > 0>>

\* ORDER BY created_at DESC over the rows selected: the sequences of their ids
\* the database may return.  The clause names no other column, so rows of one
\* created_at come in the order the database happens to produce.
OrderByCreatedAtDesc(tbl, ids) ==
    {q \in [1 .. Cardinality(ids) -> ids] :
        /\ \A i \in DOMAIN q : \A j \in DOMAIN q : i # j => q[i] # q[j]
        /\ \A i \in DOMAIN q : \A j \in DOMAIN q :
               i < j => tbl[q[i]].created_at >= tbl[q[j]].created_at}

\* db.WrapError: the error of the database as the Backend returns it
WrapError(err) ==
    IF err = "sql.ErrNoRows" THEN "ErrRecordNotFound"
    ELSE IF err = "unique_dependency" THEN "ErrDuplicateKey"
    ELSE err

\* Backend.GetIssue and Backend.GetMergeRequest: the error returned, and the
\* row when it is nil ("ok")
Backend_GetIssue(tbl, repo, issueID) ==
    LET got == issueStore_GetIssueByID(tbl, repo, issueID)
    IN  IF got = <<>> THEN [err |-> WrapError("sql.ErrNoRows"), row |-> <<>>]
        ELSE [err |-> "ok", row |-> got]

Backend_GetMergeRequest(tbl, repo, mrID) ==
    LET got == mergeRequestStore_GetMergeRequestByID(tbl, repo, mrID)
    IN  IF got = <<>> THEN [err |-> WrapError("sql.ErrNoRows"), row |-> <<>>]
        ELSE [err |-> "ok", row |-> got]

\* Backend.ListIssues and Backend.ListMergeRequests: state is <<>> for a nil
\* state, <<s>> for a pointer to s
Backend_ListIssues(tbl, repo, state) ==
    IF state = <<>> THEN issueStore_GetIssuesByRepoID(tbl, repo)
    ELSE issueStore_GetIssuesByRepoIDAndState(tbl, repo, state[1])

Backend_ListMergeRequests(tbl, repo, state) ==
    IF state = <<>> THEN mergeRequestStore_GetMergeRequestsByRepoID(tbl, repo)
    ELSE mergeRequestStore_GetMergeRequestsByRepoIDAndState(tbl, repo, state[1])

\* ---------------------------------------------------------------- results
\* The last single-transaction Backend (or store) call: its arguments, the
\* state column of the row it addressed as it was before the call (<<>> when no
\* row matched repo_id and id), the RowsAffected of its statement, and the
\* error it returned ("ok" is nil); for the calls that act for the user of the
\* ctx that user, and for the calls on a dependency edge the dependsOnID.
\* cascaded counts the rows of issue_dependencies a DELETE took with it.
NoLast == [op |-> "none", repo |-> 0, id |-> 0, pre |-> <<>>, affected |-> 0,
           result |-> "none", user |-> <<>>, dep |-> 0, cascaded |-> 0]

StateOf(tbl, repoID, id) ==
    IF id \in DOMAIN tbl /\ tbl[id].repo_id = repoID THEN <<tbl[id].state>> ELSE <<>>

Returned(op, tbl, repoID, id, affected, result) ==
    last' = [NoLast EXCEPT !.op = op, !.repo = repoID, !.id = id,
                           !.pre = StateOf(tbl, repoID, id),
                           !.affected = affected, !.result = result]

ReturnedTo(user, op, tbl, repoID, id, affected, result) ==
    last' = [NoLast EXCEPT !.op = op, !.repo = repoID, !.id = id,
                           !.pre = StateOf(tbl, repoID, id),
                           !.affected = affected, !.result = result, !.user = user]

ReturnedDep(op, tbl, repoID, issueID, dependsOnID, affected, result) ==
    last' = [NoLast EXCEPT !.op = op, !.repo = repoID, !.id = issueID,
                           !.pre = StateOf(tbl, repoID, issueID),
                           !.affected = affected, !.result = result,
                           !.dep = dependsOnID]

ReturnedCascade(op, tbl, repoID, id, affected, cascaded, result) ==
    last' = [NoLast EXCEPT !.op = op, !.repo = repoID, !.id = id,
                           !.pre = StateOf(tbl, repoID, id),
                           !.affected = affected, !.result = result,
                           !.cascaded = cascaded]

\* ------------------------------------------------- Backend: merge requests

\* gr.ShowRefVerify that succeeds for a ref that is not there.
ShowRefVerify_anyRef(repo, branch) == repo \in DOMAIN refs

\* gr.ShowRefVerify("refs/heads/<branch>") succeeds
ShowRefVerify(repo, branch) == branch \in refs[repo]

\* Every Backend method below is called with the name of a repository that
\* exists (d.Repository succeeds) and with a database that answers.
Backend_CreateMergeRequest(user, repo, title, description, sourceBranch, targetBranch) ==
    /\ \E opened \in BOOLEAN :        \* r.Open() opens the repository on disk, or fails
       IF user = <<>>
       THEN /\ Returned("CreateMergeRequest", merge_requests, repo, 0, 0, "ErrUserNotFound")
            /\ UNCHANGED mrVars
       ELSE IF ~opened
       THEN /\ Returned("CreateMergeRequest", merge_requests, repo, 0, 0, "ErrOpenRepo")
            /\ UNCHANGED mrVars
       ELSE IF ~ShowRefVerify(repo, sourceBranch)
       THEN /\ Returned("CreateMergeRequest", merge_requests, repo, 0, 0, "ErrSourceBranch")
            /\ UNCHANGED mrVars
       ELSE IF ~ShowRefVerify(repo, targetBranch)
       THEN /\ Returned("CreateMergeRequest", merge_requests, repo, 0, 0, "ErrTargetBranch")
            /\ UNCHANGED mrVars
       ELSE /\ mrSeq' = mrSeq + 1
            /\ merge_requests' = mergeRequestStore_CreateMergeRequest(
                   merge_requests, mrSeq + 1, repo, user[1], title, description,
                   sourceBranch, targetBranch, now)
            /\ Returned("CreateMergeRequest", merge_requests, repo, mrSeq + 1, 1, "ok")
    /\ UNCHANGED <<issueVars, now, gitVars, calls>>

Backend_UpdateMergeRequest(repo, mrID, title, description) ==
    /\ merge_requests' = mergeRequestStore_UpdateMergeRequest(
           merge_requests, repo, mrID, title, description, now)
    /\ Returned("UpdateMergeRequest", merge_requests, repo, mrID,
                RowsAffected(merge_requests, repo, mrID, MergeRequestStates), "ok")
    /\ UNCHANGED <<mrSeq, issueVars, now, gitVars, calls>>

Backend_CloseMergeRequest(user, repo, mrID) ==
    /\ IF user = <<>>
       THEN /\ Returned("CloseMergeRequest", merge_requests, repo, mrID, 0, "ErrUserNotFound")
            /\ UNCHANGED merge_requests
       ELSE /\ merge_requests' = mergeRequestStore_CloseMergeRequest(
                   merge_requests, repo, mrID, user[1], now)
            /\ ReturnedTo(user, "CloseMergeRequest", merge_requests, repo, mrID,
                        RowsAffected(merge_requests, repo, mrID, {MergeRequestStateOpen}),
                        "ok")
    /\ UNCHANGED <<mrSeq, issueVars, now, gitVars, calls>>

Backend_ReopenMergeRequest(repo, mrID) ==
    /\ merge_requests' = mergeRequestStore_ReopenMergeRequest(merge_requests, repo, mrID, now)
    /\ Returned("ReopenMergeRequest", merge_requests, repo, mrID,
                RowsAffected(merge_requests, repo, mrID, {MergeRequestStateClosed}), "ok")
    /\ UNCHANGED <<mrSeq, issueVars, now, gitVars, calls>>

\* The store method run in a transaction of its own (the Backend has no delete).
DeleteMergeRequest(repo, mrID) ==
    /\ merge_requests' = mergeRequestStore_DeleteMergeRequest(merge_requests, repo, mrID)
    /\ Returned("DeleteMergeRequest", merge_requests, repo, mrID,
                RowsAffected(merge_requests, repo, mrID, MergeRequestStates), "ok")
    /\ UNCHANGED <<mrSeq, issueVars, now, gitVars, calls>>

\* --------------------------------------------------------- Backend: issues

Backend_CreateIssue(user, repo, title, description) ==
    /\ IF user = <<>>
       THEN /\ Returned("CreateIssue", issues, repo, 0, 0, "ErrUserNotFound")
            /\ UNCHANGED <<issues, issueSeq>>
       ELSE /\ issueSeq' = issueSeq + 1
            /\ issues' = issueStore_CreateIssue(issues, issueSeq + 1, repo, user[1],
                                                title, description, now)
            /\ Returned("CreateIssue", issues, repo, issueSeq + 1, 1, "ok")
    /\ UNCHANGED <<issue_dependencies, mrVars, now, gitVars, calls>>

Backend_UpdateIssue(repo, issueID, title, description) ==
    /\ issues' = issueStore_UpdateIssue(issues, repo, issueID, title, description, now)
    /\ Returned("UpdateIssue", issues, repo, issueID,
                RowsAffected(issues, repo, issueID, IssueStates), "ok")
    /\ UNCHANGED <<issueSeq, issue_dependencies, mrVars, now, gitVars, calls>>

\* The method below without its test of the user of the ctx.
Backend_CloseIssue_noUserCheck(user, repo, issueID) ==
    /\ issues' = issueStore_CloseIssue(issues, repo, issueID,
                                       IF user = <<>> THEN 0 ELSE user[1], now)
    /\ ReturnedTo(user, "CloseIssue", issues, repo, issueID,
                  RowsAffected(issues, repo, issueID, {IssueStateOpen}), "ok")
    /\ UNCHANGED <<issueSeq, issue_dependencies, mrVars, now, gitVars, calls>>

Backend_CloseIssue(user, repo, issueID) ==
    /\ IF user = <<>>
       THEN /\ Returned("CloseIssue", issues, repo, issueID, 0, "ErrUserNotFound")
            /\ UNCHANGED issues
       ELSE /\ issues' = issueStore_CloseIssue(issues, repo, issueID, user[1], now)
            /\ ReturnedTo(user, "CloseIssue", issues, repo, issueID,
                        RowsAffected(issues, repo, issueID, {IssueStateOpen}), "ok")
    /\ UNCHANGED <<issueSeq, issue_dependencies, mrVars, now, gitVars, calls>>

Backend_ReopenIssue(repo, issueID) ==
    /\ issues' = issueStore_ReopenIssue(issues, repo, issueID, now)
    /\ Returned("ReopenIssue", issues, repo, issueID,
                RowsAffected(issues, repo, issueID, {IssueStateClosed}), "ok")
    /\ UNCHANGED <<issueSeq, issue_dependencies, mrVars, now, gitVars, calls>>

\* The store method run in a transaction of its own (the Backend has no delete).
DeleteIssue(repo, issueID) ==
    /\ issues' = issueStore_DeleteIssue(issues, repo, issueID)
    /\ issue_dependencies' = CascadeDelete(issue_dependencies, issues')
    /\ ReturnedCascade("DeleteIssue", issues, repo, issueID,
                       RowsAffected(issues, repo, issueID, IssueStates),
                       TotalRows(issue_dependencies) - TotalRows(issue_dependencies'),
                       "ok")
    /\ UNCHANGED <<issueSeq, mrVars, now, gitVars, calls>>

\* Backend.AddIssueDependency: the store method in one transaction, which rolls
\* back on its error.
Backend_AddIssueDependency(repo, issueID, dependsOnID) ==
    /\ LET r == issueStore_AddIssueDependency(issues, issue_dependencies, repo,
                                              issueID, dependsOnID)
       IN  /\ issue_dependencies' = r.deps
           /\ ReturnedDep("AddIssueDependency", issues, repo, issueID, dependsOnID,
                          IF r.err = "ok" THEN 1 ELSE 0, WrapError(r.err))
    /\ UNCHANGED <<issues, issueSeq, mrVars, now, gitVars, calls>>

\* Backend.RemoveIssueDependency
Backend_RemoveIssueDependency(repo, issueID, dependsOnID) ==
    /\ LET r == issueStore_RemoveIssueDependency(issues, issue_dependencies, repo,
                                                 issueID, dependsOnID)
       IN  /\ issue_dependencies' = r.deps
           /\ ReturnedDep("RemoveIssueDependency", issues, repo, issueID, dependsOnID,
                          TotalRows(issue_dependencies) - TotalRows(r.deps),
                          WrapError(r.err))
    /\ UNCHANGED <<issues, issueSeq, mrVars, now, gitVars, calls>>

\* ------------------------------------------- Backend.MergeMergeRequest
\* One invocation: where it stands (pc), its arguments, the state and the
\* branches it read from the row (read is <<>> when it read no row), the merge
\* commit its git merge made (<<>>: none), the RowsAffected of its guarded
\* update (<<>>: not run) and the error it returned; canceled says that the
\* caller's ctx is done (canceled, or past its deadline).
IdleCall == [pc |-> "idle", user |-> <<>>, repo |-> 0, id |-> 0, read |-> <<>>,
             source |-> "", target |-> "", commit |-> <<>>,
             affected |-> <<>>, result |-> "none", canceled |-> FALSE]

Finish(call, result) == [call EXCEPT !.pc = "done", !.result = result]

\* The step below without the test of the state that was read.
Backend_MergeMergeRequest_Begin_noStateCheck(c, user, repo, mrID) ==
    /\ calls[c].pc = "idle"
    /\ \E ctxDone \in BOOLEAN :
       LET call == [IdleCall EXCEPT !.user = user, !.repo = repo, !.id = mrID,
                                    !.canceled = ctxDone]
           got == mergeRequestStore_GetMergeRequestByID(merge_requests, repo, mrID)
       IN  calls' = [calls EXCEPT ![c] =
               IF user = <<>> THEN Finish(call, "ErrUserNotFound")
               ELSE IF ctxDone THEN Finish(call, "ErrContextDone")
               ELSE IF got = <<>> THEN Finish(call, "ErrRecordNotFound")
               ELSE [call EXCEPT !.pc = "checkout", !.read = <<got[1].state>>,
                                 !.source = got[1].source_branch,
                                 !.target = got[1].target_branch]]
    /\ UNCHANGED <<dbVars, now, gitVars, last>>

\* Lines 126-147: the user of the context, then GetMergeRequest in a read
\* transaction, then the test of the state that was read.  The transaction
\* begins with the caller's ctx and fails when that ctx is already done.
Backend_MergeMergeRequest_Begin(c, user, repo, mrID) ==
    /\ calls[c].pc = "idle"
    /\ \E ctxDone \in BOOLEAN :
       LET call == [IdleCall EXCEPT !.user = user, !.repo = repo, !.id = mrID,
                                    !.canceled = ctxDone]
           got == mergeRequestStore_GetMergeRequestByID(merge_requests, repo, mrID)
       IN  calls' = [calls EXCEPT ![c] =
               IF user = <<>> THEN Finish(call, "ErrUserNotFound")
               ELSE IF ctxDone THEN Finish(call, "ErrContextDone")
               ELSE IF got = <<>> THEN Finish(call, "ErrRecordNotFound")
               ELSE IF got[1].state # MergeRequestStateOpen
               THEN Finish([call EXCEPT !.read = <<got[1].state>>], "ErrNotOpen")
               ELSE [call EXCEPT !.pc = "checkout", !.read = <<got[1].state>>,
                                 !.source = got[1].source_branch,
                                 !.target = got[1].target_branch]]
    /\ UNCHANGED <<dbVars, now, gitVars, last>>

\* Lines 149-153 and performMerge, lines 214-218: r.Open() opens the repository
\* on disk, then git checkout <targetBranch> runs in its working tree.  The
\* checkout fails when the branch is gone, and either may fail for reasons of
\* the disk or the tree.
performMerge_Checkout(c) ==
    /\ calls[c].pc = "checkout"
    /\ \E outcome \in {"ok", "open fails", "checkout fails"} :
          /\ outcome = "ok" => calls[c].target \in refs[calls[c].repo]
          /\ IF outcome = "ok"
             THEN /\ HEAD' = [HEAD EXCEPT ![calls[c].repo] = calls[c].target]
                  /\ calls' = [calls EXCEPT ![c].pc = "merge"]
             ELSE /\ UNCHANGED HEAD
                  /\ calls' = [calls EXCEPT ![c] = Finish(calls[c],
                         IF outcome = "open fails" THEN "ErrOpenRepo" ELSE "ErrMergeFailed")]
    /\ UNCHANGED <<dbVars, now, refs, last>>

\* fmt.Sprintf("Merge branch '%s' into '%s'", sourceBranch, targetBranch)
commitMsg(sourceBranch, targetBranch, author) ==
    <<"Merge branch", sourceBranch, "into", targetBranch>>

\* performMerge_Merge with the error of git merge dropped: the call goes on to
\* its guarded update although nothing was merged.
performMerge_Merge_errorDropped(c) ==
    /\ calls[c].pc = "merge"
    /\ \E ok \in BOOLEAN :
          /\ ok => calls[c].source \in refs[calls[c].repo]
          /\ IF ok
             THEN calls' = [calls EXCEPT ![c].pc = "update", ![c].commit =
                      <<[source |-> calls[c].source, into |-> HEAD[calls[c].repo],
                         msg |-> commitMsg(calls[c].source, calls[c].target,
                                           calls[c].user[1])]>>]
             ELSE calls' = [calls EXCEPT ![c].pc = "update"]
    /\ UNCHANGED <<dbVars, now, gitVars, last>>

\* The step below trying the checkout again when git merge fails.
performMerge_Merge_retries(c) ==
    /\ calls[c].pc = "merge"
    /\ \E ok \in BOOLEAN :
          /\ ok => calls[c].source \in refs[calls[c].repo]
          /\ IF ok
             THEN calls' = [calls EXCEPT ![c].pc = "update", ![c].commit =
                      <<[source |-> calls[c].source, into |-> HEAD[calls[c].repo],
                         msg |-> commitMsg(calls[c].source, calls[c].target,
                                           calls[c].user[1])]>>]
             ELSE calls' = [calls EXCEPT ![c].pc = "checkout"]
    /\ UNCHANGED <<dbVars, now, gitVars, last>>

\* performMerge, lines 220-227: git merge --no-ff -m <msg> <sourceBranch> merges
\* into whatever branch the working tree has checked out at that moment.
performMerge_Merge(c) ==
    /\ calls[c].pc = "merge"
    /\ \E ok \in BOOLEAN :
          /\ ok => calls[c].source \in refs[calls[c].repo]
          /\ IF ok
             THEN calls' = [calls EXCEPT ![c].pc = "update", ![c].commit =
                      <<[source |-> calls[c].source, into |-> HEAD[calls[c].repo],
                         msg |-> commitMsg(calls[c].source, calls[c].target,
                                           calls[c].user[1])]>>]
             ELSE calls' = [calls EXCEPT ![c] = Finish(calls[c], "ErrMergeFailed")]
    /\ UNCHANGED <<dbVars, now, gitVars, last>>

\* The guarded update run in a transaction that does not look at the ctx.
Backend_MergeMergeRequest_Update_ctxIgnored(c) ==
    /\ calls[c].pc = "update"
    /\ merge_requests' = mergeRequestStore_MergeMergeRequest(
           merge_requests, calls[c].repo, calls[c].id, calls[c].user[1], now)
    /\ calls' = [calls EXCEPT ![c] =
           [Finish(calls[c], "ok") EXCEPT
               !.affected = <<RowsAffected(merge_requests, calls[c].repo, calls[c].id,
                                           {MergeRequestStateOpen})>>]]
    /\ UNCHANGED <<mrSeq, issueVars, now, gitVars, last>>

\* Lines 160-167: the guarded update in a write transaction; the store returns
\* only the statement's error, so the call returns nil whatever it matched.
\* d.db.TransactionContext(ctx, ...) begins and commits with the caller's ctx:
\* with the ctx done before the commit nothing is written and the ctx's error
\* is returned.
Backend_MergeMergeRequest_Update(c) ==
    /\ calls[c].pc = "update"
    /\ IF calls[c].canceled
       THEN /\ UNCHANGED merge_requests
            /\ calls' = [calls EXCEPT ![c] = Finish(calls[c], "ErrContextDone")]
       ELSE /\ merge_requests' = mergeRequestStore_MergeMergeRequest(
                   merge_requests, calls[c].repo, calls[c].id, calls[c].user[1], now)
            /\ calls' = [calls EXCEPT ![c] =
                   [Finish(calls[c], "ok") EXCEPT
                       !.affected = <<RowsAffected(merge_requests, calls[c].repo,
                                                   calls[c].id, {MergeRequestStateOpen})>>]]
    /\ UNCHANGED <<mrSeq, issueVars, now, gitVars, last>>

\* The caller has its answer; the slot is free for another invocation.
Backend_MergeMergeRequest_Return(c) ==
    /\ calls[c].pc = "done"
    /\ calls' = [calls EXCEPT ![c] = IdleCall]
    /\ UNCHANGED <<dbVars, now, gitVars, last>>

\* ------------------------------------------------------------ environment
\* The caller cancels the ctx of a call in flight, or its deadline passes.
\* r.Open() and the git commands of performMerge take no ctx and run on.
ctx_Cancel(c) ==
    /\ calls[c].pc \in {"checkout", "merge", "update"}
    /\ ~calls[c].canceled
    /\ calls' = [calls EXCEPT ![c].canceled = TRUE]
    /\ UNCHANGED <<dbVars, now, gitVars, last>>

\* CURRENT_TIMESTAMP advances.
Tick ==
    /\ now' = now + 1
    /\ UNCHANGED <<dbVars, gitVars, calls, last>>

\* A branch is deleted in the repository (a push, or git branch -D).
DeleteBranch(repo, branch) ==
    /\ branch \in refs[repo]
    /\ refs' = [refs EXCEPT ![repo] = @ \ {branch}]
    /\ UNCHANGED <<dbVars, now, HEAD, calls, last>>

\* ------------------------------------------------------- the specification
Init ==
    /\ merge_requests = <<>>
    /\ mrSeq = 0
    /\ issues = <<>>
    /\ issueSeq = 0
    /\ issue_dependencies = <<>>
    /\ now = 1
    /\ refs = [r \in Repos |-> Branches]
    /\ HEAD = [r \in Repos |-> "main"]
    /\ calls = [c \in Calls |-> IdleCall]
    /\ last = NoLast

\* The merge executor under concurrency: merge requests of one repository,
\* NumCalls invocations of MergeMergeRequest interleaved with each other and
\* with the single-transaction operations.
MergeRepos == {1}
RacedMRs == 1 .. MaxRacedMR

Next ==
    \/ /\ mrSeq < MaxRacedMR
       /\ \E u \in CtxUsers, s \in Branches : \E g \in Branches \ {s} :
             \E r \in MergeRepos : Backend_CreateMergeRequest(u, r, "T", "D", s, g)
    \/ \E r \in MergeRepos, i \in RacedMRs : Backend_UpdateMergeRequest(r, i, "T", "D")
    \/ \E u \in CtxUsers, r \in MergeRepos, i \in RacedMRs : Backend_CloseMergeRequest(u, r, i)
    \/ \E r \in MergeRepos, i \in RacedMRs : Backend_ReopenMergeRequest(r, i)
    \/ \E r \in MergeRepos, i \in RacedMRs : DeleteMergeRequest(r, i)
    \/ \E c \in Calls, u \in CtxUsers, r \in MergeRepos, i \in RacedMRs :
          Backend_MergeMergeRequest_Begin(c, u, r, i)
    \/ \E c \in Calls : performMerge_Checkout(c)
    \/ \E c \in Calls : performMerge_Merge(c)
    \/ \E c \in Calls : Backend_MergeMergeRequest_Update(c)
    \/ \E c \in Calls : Backend_MergeMergeRequest_Return(c)
    \/ \E r \in MergeRepos, b \in Branches : DeleteBranch(r, b)
    \/ now < MaxTime /\ Tick

Spec == Init /\ [][Next]_vars

\* The merge executor on several merge requests of one repository, whose
\* branches may cross: NumCalls invocations of MergeMergeRequest interleave in
\* the one working tree of the repository.
CrossedMRs == 1 .. MaxCrossedMR
CrossedUsers == {<<1>>}

NextCrossed ==
    \/ /\ mrSeq < MaxCrossedMR
       /\ \E u \in CrossedUsers, s \in Branches : \E g \in Branches \ {s} :
             \E r \in MergeRepos : Backend_CreateMergeRequest(u, r, "T", "D", s, g)
    \/ \E c \in Calls, u \in CrossedUsers, r \in MergeRepos, i \in CrossedMRs :
          Backend_MergeMergeRequest_Begin(c, u, r, i)
    \/ \E c \in Calls : performMerge_Checkout(c)
    \/ \E c \in Calls : performMerge_Merge(c)
    \/ \E c \in Calls : Backend_MergeMergeRequest_Update(c)
    \/ \E c \in Calls : Backend_MergeMergeRequest_Return(c)

SpecCrossed == Init /\ [][NextCrossed]_vars

\* The merge executor with callers that give up: a ctx may be canceled, or
\* pass its deadline, at any point of a call in flight, while other callers
\* close, reopen and merge the same merge request.
NextCancel ==
    \/ /\ mrSeq < MaxRacedMR
       /\ \E u \in CtxUsers, s \in Branches : \E g \in Branches \ {s} :
             \E r \in MergeRepos : Backend_CreateMergeRequest(u, r, "T", "D", s, g)
    \/ \E u \in CtxUsers, r \in MergeRepos, i \in RacedMRs : Backend_CloseMergeRequest(u, r, i)
    \/ \E r \in MergeRepos, i \in RacedMRs : Backend_ReopenMergeRequest(r, i)
    \/ \E c \in Calls, u \in CtxUsers, r \in MergeRepos, i \in RacedMRs :
          Backend_MergeMergeRequest_Begin(c, u, r, i)
    \/ \E c \in Calls : performMerge_Checkout(c)
    \/ \E c \in Calls : performMerge_Merge(c)
    \/ \E c \in Calls : Backend_MergeMergeRequest_Update(c)
    \/ \E c \in Calls : Backend_MergeMergeRequest_Return(c)
    \/ \E c \in Calls : ctx_Cancel(c)
    \/ \E r \in MergeRepos, b \in Branches : DeleteBranch(r, b)

SpecCancel == Init /\ [][NextCancel]_vars

\* The issue tracker: the single-transaction operations on the issues of all
\* repositories, each atomic, in any order and by any actor.
IssueIds == 1 .. MaxIssue

NextIssue ==
    \/ /\ issueSeq < MaxIssue
       /\ \E u \in CtxUsers, r \in Repos, t \in Titles : Backend_CreateIssue(u, r, t, "D")
    \/ \E r \in Repos, i \in IssueIds, t \in Titles : Backend_UpdateIssue(r, i, t, "D")
    \/ \E u \in CtxUsers, r \in Repos, i \in IssueIds : Backend_CloseIssue(u, r, i)
    \/ \E r \in Repos, i \in IssueIds : Backend_ReopenIssue(r, i)
    \/ \E r \in Repos, i \in IssueIds : DeleteIssue(r, i)
    \/ now < MaxTime /\ Tick

SpecIssue == Init /\ [][NextIssue]_vars

\* The dependency graph: issues of all repositories are created and deleted
\* while edges between any two issue ids are added and removed under any
\* repository.
DepIssueIds == 1 .. MaxDepIssue
DepAuthors == {<<1>>}

NextDeps ==
    \/ /\ issueSeq < MaxDepIssue
       /\ \E u \in DepAuthors, r \in Repos : Backend_CreateIssue(u, r, "T", "D")
    \/ \E r \in Repos, i \in DepIssueIds : DeleteIssue(r, i)
    \/ \E r \in Repos, a \in DepIssueIds, b \in DepIssueIds :
          Backend_AddIssueDependency(r, a, b)
    \/ \E r \in Repos, a \in DepIssueIds, b \in DepIssueIds :
          Backend_RemoveIssueDependency(r, a, b)

SpecDeps == Init /\ [][NextDeps]_vars

\* The life of an entity: the issues and the merge requests of one repository
\* are created, closed, reopened, merged and deleted by any actor in any order.
TrackedIds == 1 .. MaxTracked
TrackedCalls == {1}      \* one MergeMergeRequest invocation at a time

NextLifecycle ==
    \/ /\ issueSeq < MaxTracked
       /\ \E u \in CtxUsers, r \in MergeRepos : Backend_CreateIssue(u, r, "T", "D")
    \/ \E u \in CtxUsers, r \in MergeRepos, i \in TrackedIds : Backend_CloseIssue(u, r, i)
    \/ \E r \in MergeRepos, i \in TrackedIds : Backend_ReopenIssue(r, i)
    \/ \E r \in MergeRepos, i \in TrackedIds : DeleteIssue(r, i)
    \/ /\ mrSeq < MaxTracked
       /\ \E u \in CtxUsers, r \in MergeRepos :
             Backend_CreateMergeRequest(u, r, "T", "D", "feature", "main")
    \/ \E u \in CtxUsers, r \in MergeRepos, i \in TrackedIds : Backend_CloseMergeRequest(u, r, i)
    \/ \E r \in MergeRepos, i \in TrackedIds : Backend_ReopenMergeRequest(r, i)
    \/ \E r \in MergeRepos, i \in TrackedIds : DeleteMergeRequest(r, i)
    \/ \E c \in TrackedCalls, u \in CtxUsers, r \in MergeRepos, i \in TrackedIds :
          Backend_MergeMergeRequest_Begin(c, u, r, i)
    \/ \E c \in TrackedCalls : performMerge_Checkout(c)
    \/ \E c \in TrackedCalls : performMerge_Merge(c)
    \/ \E c \in TrackedCalls : Backend_MergeMergeRequest_Update(c)
    \/ \E c \in TrackedCalls : Backend_MergeMergeRequest_Return(c)
    \/ now < MaxTime /\ Tick

SpecLifecycle == Init /\ [][NextLifecycle]_vars

\* The same with the MergeMergeRequest call running on: the call is
\* straight-line code on a goroutine of its own, and each of its steps (a
\* query, a git command, a transaction) returns.
CallRuns(c) ==
    \/ performMerge_Checkout(c)
    \/ performMerge_Merge(c)
    \/ Backend_MergeMergeRequest_Update(c)

SpecLifecycleFair == SpecLifecycle /\ \A c \in TrackedCalls : WF_vars(CallRuns(c))

\* The entity store: the issues, or the merge requests, of all repositories are
\* created, updated, closed, reopened, merged and deleted, one call at a time
\* for the single-transaction methods and one MergeMergeRequest in flight.
\* The two kinds share no table and no method, so a behaviour follows one
\* kind: issues while no merge request was created, merge requests while no
\* issue was.
StoredIds == 1 .. MaxStored
NewTitles == {"U"}
NoIssueYet == issueSeq = 0
NoMergeRequestYet == mrSeq = 0 /\ \A c \in Calls : calls[c].pc = "idle"

NextStore ==
    \/ /\ NoMergeRequestYet /\ issueSeq < MaxStored
       /\ \E u \in DepAuthors, r \in Repos : Backend_CreateIssue(u, r, "T", "D")
    \/ /\ NoMergeRequestYet
       /\ \E r \in Repos, i \in StoredIds, t \in NewTitles : Backend_UpdateIssue(r, i, t, "E")
    \/ /\ NoMergeRequestYet
       /\ \E u \in DepAuthors, r \in Repos, i \in StoredIds : Backend_CloseIssue(u, r, i)
    \/ /\ NoMergeRequestYet
       /\ \E r \in Repos, i \in StoredIds : Backend_ReopenIssue(r, i)
    \/ /\ NoMergeRequestYet
       /\ \E r \in Repos, i \in StoredIds : DeleteIssue(r, i)
    \/ /\ NoMergeRequestYet
       /\ \E r \in Repos, a \in StoredIds, b \in StoredIds :
             Backend_AddIssueDependency(r, a, b)
    \/ /\ NoIssueYet /\ mrSeq < MaxStored
       /\ \E u \in DepAuthors, r \in Repos :
             Backend_CreateMergeRequest(u, r, "T", "D", "feature", "main")
    \/ /\ NoIssueYet
       /\ \E r \in Repos, i \in StoredIds, t \in NewTitles :
             Backend_UpdateMergeRequest(r, i, t, "E")
    \/ /\ NoIssueYet
       /\ \E u \in DepAuthors, r \in Repos, i \in StoredIds :
             Backend_CloseMergeRequest(u, r, i)
    \/ /\ NoIssueYet
       /\ \E r \in Repos, i \in StoredIds : Backend_ReopenMergeRequest(r, i)
    \/ /\ NoIssueYet
       /\ \E r \in Repos, i \in StoredIds : DeleteMergeRequest(r, i)
    \/ /\ NoIssueYet
       /\ \E c \in TrackedCalls, u \in DepAuthors, r \in Repos, i \in StoredIds :
             Backend_MergeMergeRequest_Begin(c, u, r, i)
    \/ \E c \in TrackedCalls : performMerge_Checkout(c)
    \/ \E c \in TrackedCalls : performMerge_Merge(c)
    \/ \E c \in TrackedCalls : Backend_MergeMergeRequest_Update(c)
    \/ \E c \in TrackedCalls : Backend_MergeMergeRequest_Return(c)
    \/ now < MaxTime /\ Tick

SpecStore == Init /\ [][NextStore]_vars

\* ------------------------------------------------------ the error taxonomy
\* errors.New("merge request is not open") is the one error the code returns
\* for a transition whose precondition is not met.
IsInvalidState(result) == result = "ErrNotOpen"

\* "failed to open repository: ..." and "failed to merge: ..."
IsExternalOperationFailure(result) == result \in {"ErrOpenRepo", "ErrMergeFailed"}

\* "merge succeeded but state not recorded": no statement of the code returns it.
IsUnrecorded(result) == result = "ErrUnrecorded"

\* db.ErrRecordNotFound, which db.WrapError makes of sql.ErrNoRows
IsNotFound(result) == result = "ErrRecordNotFound"

\* db.ErrDuplicateKey, which db.WrapError makes of a unique violation
IsConflict(result) == result = "ErrDuplicateKey"

\* An error for a malformed argument: no statement of the code returns one.
IsInvalidArgument(result) == result = "ErrInvalidArgument"

Done(c) == calls[c].pc = "done"
SameMR(c, d) == calls[c].repo = calls[d].repo /\ calls[c].id = calls[d].id
Row(c) == mergeRequestStore_GetMergeRequestByID(merge_requests, calls[c].repo, calls[c].id)

\* ------------------------------------------------------------------ claims

\* C1: of the MergeMergeRequest calls racing on one Open merge request exactly
\* one persists the transition to Merged.  The guarded update of a call turns
\* the row from Open to Merged with that caller as mergedBy and the current
\* time as mergedAt when the row is still Open, so the first racer to reach it
\* wins; it leaves the table as it is otherwise, so no second caller writes
\* mergedBy or mergedAt; and the row stays as the winner wrote it.
OneMergedTransition ==
    /\ \A c \in Calls : \A d \in Calls \ {c} :
           SameMR(c, d) /\ calls[c].affected = <<1>> => calls[d].affected # <<1>>
    /\ \A c \in Calls :
           calls[c].affected = <<1>> /\ Row(c) # <<>> =>
               /\ Row(c)[1].state = MergeRequestStateMerged
               /\ Row(c)[1].merged_by = SomeInt64(calls[c].user[1])

GuardedUpdateStep ==
    \A c \in Calls :
        calls[c].pc = "update" /\ calls'[c].pc = "done" =>
            IF Row(c) # <<>> /\ Row(c)[1].state = MergeRequestStateOpen
            THEN /\ calls'[c].affected = <<1>>
                 /\ merge_requests'[calls[c].id].state = MergeRequestStateMerged
                 /\ merge_requests'[calls[c].id].merged_by = SomeInt64(calls[c].user[1])
                 /\ merge_requests'[calls[c].id].merged_at = SomeTime(now)
                 /\ \A i \in DOMAIN merge_requests \ {calls[c].id} :
                        merge_requests'[i] = merge_requests[i]
            ELSE /\ calls'[c].affected = <<0>>
                 /\ merge_requests' = merge_requests

ExactlyOneMergePersisted == []OneMergedTransition /\ [][GuardedUpdateStep]_vars

\* Two calls by different actors both ran their git merge and their guarded
\* update on the same merge request; one matched the row, the other did not.
TwoMergesRaced ==
    \E c \in Calls : \E d \in Calls \ {c} :
        /\ Done(c) /\ Done(d) /\ SameMR(c, d)
        /\ calls[c].user # calls[d].user
        /\ calls[c].commit # <<>> /\ calls[d].commit # <<>>
        /\ calls[c].affected = <<1>> /\ calls[d].affected = <<0>>
        /\ Row(c) # <<>> /\ Row(c)[1].merged_by = SomeInt64(calls[c].user[1])

\* C2: no two MergeMergeRequest invocations on one repository are at the same
\* time between the start of the checkout and the end of the guarded update.
InWorkingTree(c) == calls[c].pc \in {"merge", "update"}

WorkingTreeMutex ==
    \A c \in Calls : \A d \in Calls \ {c} :
        InWorkingTree(c) /\ InWorkingTree(d) => calls[c].repo # calls[d].repo

\* C3: a call whose git merge succeeded and whose guarded update matched no row
\* returns the Unrecorded failure.
UnrecordedIsReported ==
    \A c \in Calls :
        Done(c) /\ calls[c].commit # <<>> /\ calls[c].affected = <<0>> =>
            IsUnrecorded(calls[c].result)

\* C4: CloseIssue by a user on a Closed issue, and ReopenIssue on an Open
\* issue, fail with InvalidState.
CloseClosedIssueFails ==
    /\ last.op = "CloseIssue" /\ last.pre = <<IssueStateClosed>>
           /\ last.result # "ErrUserNotFound" => IsInvalidState(last.result)
    /\ last.op = "ReopenIssue" /\ last.pre = <<IssueStateOpen>> =>
           IsInvalidState(last.result)

\* C5: close, reopen and merge on a Merged merge request all fail with
\* InvalidState (a call without a user fails before it looks at the row).
MergedRejectsTransitions ==
    /\ last.op \in {"CloseMergeRequest", "ReopenMergeRequest"}
           /\ last.pre = <<MergeRequestStateMerged>>
           /\ last.result # "ErrUserNotFound" => IsInvalidState(last.result)
    /\ \A c \in Calls :
           Done(c) /\ calls[c].read = <<MergeRequestStateMerged>> =>
               IsInvalidState(calls[c].result)

\* C6: no step takes a Merged merge request out of Merged or changes its
\* mergedBy or mergedAt; the row goes away only by DeleteMergeRequest.
MergedIsTerminal ==
    [][\A i \in DOMAIN merge_requests :
           merge_requests[i].state = MergeRequestStateMerged =>
               IF i \in DOMAIN merge_requests'
               THEN /\ merge_requests'[i].state = MergeRequestStateMerged
                    /\ merge_requests'[i].merged_by = merge_requests[i].merged_by
                    /\ merge_requests'[i].merged_at = merge_requests[i].merged_at
               ELSE last'.op = "DeleteMergeRequest" /\ last'.id = i]_vars

\* A Merged merge request was updated after its merge, and then closed by a user:
\* the row is still Merged.
ClosedAMergedMR ==
    /\ last.op = "CloseMergeRequest" /\ last.result = "ok"
    /\ last.pre = <<MergeRequestStateMerged>>
    /\ \E i \in DOMAIN merge_requests :
           /\ i = last.id
           /\ merge_requests[i].state = MergeRequestStateMerged
           /\ merge_requests[i].updated_at > merge_requests[i].merged_at.Time

\* C7: a call that returns success matched the Open row with its guarded
\* update, and the row it leaves is Merged by its user with mergedAt set.
MergeSuccessMeansMerged ==
    \A c \in Calls :
        Done(c) /\ calls[c].result = "ok" =>
            /\ calls[c].affected = <<1>>
            /\ Row(c) # <<>> =>
                   /\ Row(c)[1].state = MergeRequestStateMerged
                   /\ Row(c)[1].merged_by = SomeInt64(calls[c].user[1])
                   /\ Row(c)[1].merged_at.Valid

\* C8: a call whose checkout or merge fails returns ExternalOperationFailure in
\* that very step, without touching the table, and never runs the guarded
\* update; a checkout of a deleted target branch and a merge of a deleted
\* source branch do fail.
FailedMergeStep ==
    \A c \in Calls :
        /\ calls[c].pc \in {"checkout", "merge"} /\ calls'[c].pc = "done" =>
               /\ IsExternalOperationFailure(calls'[c].result)
               /\ calls'[c].affected = <<>>
               /\ merge_requests' = merge_requests
        /\ calls[c].pc = "done" /\ IsExternalOperationFailure(calls[c].result) =>
               calls'[c].pc \in {"done", "idle"}
        /\ calls[c].pc = "checkout" /\ calls[c].target \notin refs[calls[c].repo] =>
               calls'[c].pc \in {"checkout", "done"}
        /\ calls[c].pc = "merge" /\ calls[c].source \notin refs[calls[c].repo] =>
               calls'[c].pc \in {"merge", "done"}

ExternalFailureLeavesRow == [][FailedMergeStep]_vars

\* The source branch was deleted after the merge request was created, the merge
\* of a call failed on it, and the row is as it was created.
MergeFailedOnDeletedBranch ==
    \E c \in Calls :
        /\ Done(c) /\ calls[c].result = "ErrMergeFailed" /\ calls[c].affected = <<>>
        /\ calls[c].source \notin refs[calls[c].repo]
        /\ calls[c].target \in refs[calls[c].repo]
        /\ Row(c) # <<>>
        /\ Row(c)[1].state = MergeRequestStateOpen
        /\ Row(c)[1].updated_at = Row(c)[1].created_at
        /\ now > Row(c)[1].created_at

\* C9: of two calls that both ran the git merge for one merge request, exactly
\* one returns success and the other InvalidState or Unrecorded.
OneMergeCallSucceeds ==
    \A c \in Calls : \A d \in Calls \ {c} :
        Done(c) /\ Done(d) /\ SameMR(c, d)
            /\ calls[c].commit # <<>> /\ calls[d].commit # <<>> =>
                \/ /\ calls[c].result = "ok"
                   /\ IsInvalidState(calls[d].result) \/ IsUnrecorded(calls[d].result)
                \/ /\ calls[d].result = "ok"
                   /\ IsInvalidState(calls[c].result) \/ IsUnrecorded(calls[c].result)

\* C10: a guarded transition that matched no row of an existing merge request
\* (another caller's close or merge took effect first) fails with InvalidState.
LosersFailInvalidState ==
    /\ last.op \in {"CloseMergeRequest", "ReopenMergeRequest"}
           /\ last.pre # <<>> /\ last.affected = 0
           /\ last.result # "ErrUserNotFound" => IsInvalidState(last.result)
    /\ \A c \in Calls :
           Done(c) /\ calls[c].affected = <<0>> /\ Row(c) # <<>> =>
               IsInvalidState(calls[c].result)

\* C11: a MergeMergeRequest call whose ctx is done before its guarded update
\* commits does not apply the transition: its update step writes nothing and
\* records no matched row, so the call never turns the merge request to Merged.
CanceledUpdateStep ==
    \A c \in Calls :
        calls[c].canceled /\ calls[c].pc = "update" /\ calls'[c].pc = "done" =>
            /\ merge_requests' = merge_requests
            /\ calls'[c].affected = <<>>
            /\ calls'[c].result = "ErrContextDone"

CanceledMergeNotApplied ==
    /\ [](\A c \in Calls : calls[c].canceled => calls[c].affected # <<1>>)
    /\ [][CanceledUpdateStep]_vars

\* A call ran its checkout and its git merge, was canceled before its guarded
\* update, and returned the error of its ctx; the merge request is still Open.
CanceledAfterGitMerge ==
    \E c \in Calls :
        /\ Done(c) /\ calls[c].canceled /\ calls[c].commit # <<>>
        /\ calls[c].result = "ErrContextDone"
        /\ Row(c) # <<>> /\ Row(c)[1].state = MergeRequestStateOpen

\* C12: right after a CreateIssue that succeeded the new issue has a positive
\* id, GetIssueByID finds it under the repository it was created in, and it is
\* Open with closedBy and closedAt null.
CreatedIssueIsOpen ==
    last.op = "CreateIssue" /\ last.result = "ok" =>
        /\ last.id > 0
        /\ issueStore_GetIssueByID(issues, last.repo, last.id) # <<>>
        /\ LET i == issueStore_GetIssueByID(issues, last.repo, last.id)[1]
           IN  /\ i.state = IssueStateOpen
               /\ i.closed_by = NullInt64
               /\ i.closed_at = NullTime

\* A second issue was created while the first one is Closed.
IssueCreatedNextToClosed ==
    /\ last.op = "CreateIssue" /\ last.result = "ok" /\ last.id > 1
    /\ \E j \in DOMAIN issues : j # last.id /\ issues[j].state = IssueStateClosed

\* C13: closing an Open issue as any user and then reopening it gives an issue
\* that is Open with closedBy and closedAt null, and so for a merge request:
\* as the composition of the two statements on every reachable table, and as
\* the effect of every reopen step on a row that was Closed.
CloseThenReopen ==
    /\ \A i \in DOMAIN issues, u \in Users :
           issues[i].state = IssueStateOpen =>
               LET r == issues[i].repo_id
                   closed == issueStore_CloseIssue(issues, r, i, u, now)
                   reopened == issueStore_ReopenIssue(closed, r, i, now)
               IN  /\ closed[i].state = IssueStateClosed
                   /\ reopened[i].state = IssueStateOpen
                   /\ reopened[i].closed_by = NullInt64
                   /\ reopened[i].closed_at = NullTime
    /\ \A i \in DOMAIN merge_requests, u \in Users :
           merge_requests[i].state = MergeRequestStateOpen =>
               LET r == merge_requests[i].repo_id
                   closed == mergeRequestStore_CloseMergeRequest(merge_requests, r, i, u, now)
                   reopened == mergeRequestStore_ReopenMergeRequest(closed, r, i, now)
               IN  /\ closed[i].state = MergeRequestStateClosed
                   /\ reopened[i].state = MergeRequestStateOpen
                   /\ reopened[i].closed_by = NullInt64
                   /\ reopened[i].closed_at = NullTime

ReopenStep ==
    /\ last' # last /\ last'.op = "ReopenIssue" /\ last'.pre = <<IssueStateClosed>> =>
           /\ last'.result = "ok"
           /\ issues'[last'.id].state = IssueStateOpen
           /\ issues'[last'.id].closed_by = NullInt64
           /\ issues'[last'.id].closed_at = NullTime
    /\ last' # last /\ last'.op = "ReopenMergeRequest"
           /\ last'.pre = <<MergeRequestStateClosed>> =>
           /\ last'.result = "ok"
           /\ merge_requests'[last'.id].state = MergeRequestStateOpen
           /\ merge_requests'[last'.id].closed_by = NullInt64
           /\ merge_requests'[last'.id].closed_at = NullTime

ReopenRestoresOpen == []CloseThenReopen /\ [][ReopenStep]_vars

\* An issue and a merge request were both closed and reopened after the time
\* of their creation: both are Open again with no closer.
ClosedAndReopened ==
    /\ last.op = "ReopenMergeRequest" /\ last.pre = <<MergeRequestStateClosed>>
    /\ last.id \in DOMAIN merge_requests
    /\ merge_requests[last.id].state = MergeRequestStateOpen
    /\ merge_requests[last.id].closed_by = NullInt64
    /\ merge_requests[last.id].updated_at > merge_requests[last.id].created_at
    /\ \E i \in DOMAIN issues :
           /\ issues[i].state = IssueStateOpen /\ issues[i].closed_by = NullInt64
           /\ issues[i].updated_at > issues[i].created_at

\* C14: in every state closedBy and closedAt of an issue and of a merge request
\* are both set when the row is Closed and both null when it is not, and a
\* close by user U that returned success leaves the row with closedBy = U.
AuditFieldsTogether ==
    /\ \A i \in DOMAIN issues :
           /\ issues[i].closed_by.Valid <=> issues[i].closed_at.Valid
           /\ issues[i].closed_by.Valid <=> issues[i].state = IssueStateClosed
    /\ \A i \in DOMAIN merge_requests :
           /\ merge_requests[i].closed_by.Valid <=> merge_requests[i].closed_at.Valid
           /\ merge_requests[i].closed_by.Valid <=>
                  merge_requests[i].state = MergeRequestStateClosed

ClosedByIsTheCloser ==
    /\ AuditFieldsTogether
    /\ last.op = "CloseIssue" /\ last.result = "ok" /\ last.id \in DOMAIN issues
           /\ issues[last.id].repo_id = last.repo =>
               issues[last.id].closed_by = SomeInt64(last.user[1])
    /\ last.op = "CloseMergeRequest" /\ last.result = "ok"
           /\ last.id \in DOMAIN merge_requests
           /\ merge_requests[last.id].repo_id = last.repo =>
               merge_requests[last.id].closed_by = SomeInt64(last.user[1])

\* The issue a dependency call names exists in the repository it names.
InRepo(tbl, repoID, id) == issueStore_GetIssueByID(tbl, repoID, id) # <<>>

\* The step is a call of op that returned: every call overwrites last, and two
\* calls in a row that leave the same record leave the same state.
IsCall(op) == last' # last /\ last'.op = op

\* C15: AddIssueDependency(R, a, a) for an issue a that exists in R fails with
\* InvalidArgument and creates no edge.
SelfDependencyIsInvalidArgument ==
    last.op = "AddIssueDependency" /\ last.id = last.dep /\ last.pre # <<>> =>
        /\ IsInvalidArgument(last.result)
        /\ <<last.id, last.id>> \notin DOMAIN issue_dependencies

\* C16: AddIssueDependency(R, a, b) while the edge (a, b) exists between two
\* issues of R fails with Conflict and leaves the table as it is, and the
\* table never holds more than one row for an ordered pair.
AddExistingEdgeStep ==
    IsCall("AddIssueDependency")
        /\ <<last'.id, last'.dep>> \in DOMAIN issue_dependencies
        /\ InRepo(issues, last'.repo, last'.id)
        /\ InRepo(issues, last'.repo, last'.dep) =>
            /\ IsConflict(last'.result)
            /\ issue_dependencies' = issue_dependencies

DuplicateEdgeIsConflict ==
    /\ [](\A e \in DOMAIN issue_dependencies : issue_dependencies[e] = 1)
    /\ [][AddExistingEdgeStep]_vars

\* The same edge was added a second time: the call failed with the duplicate
\* key error and the table holds the edge once.
EdgeAddedTwice ==
    /\ last.op = "AddIssueDependency" /\ last.result = "ErrDuplicateKey"
    /\ EdgeCount(issue_dependencies, <<last.id, last.dep>>) = 1

\* C17: an AddIssueDependency that succeeded leaves its edge in the table, and
\* in every state the three queries answer by the edges of the table: for an
\* edge (a, b) of issues of R, HasIssueDependency(R, a, b) is true, b is among
\* GetIssueDependencies(R, a) and a among GetIssueDependents(R, b); for an
\* issue a of R the dependencies are exactly the b with an edge (a, b), the
\* dependents exactly the b with an edge (b, a), and HasIssueDependency is
\* false for a pair without an edge.
QueriesFollowEdges ==
    /\ last.op = "AddIssueDependency" /\ last.result = "ok" =>
           <<last.id, last.dep>> \in DOMAIN issue_dependencies
    /\ \A e \in DOMAIN issue_dependencies :
           e[1] \in DOMAIN issues =>
               LET R == issues[e[1]].repo_id
               IN  /\ issueStore_HasIssueDependency(
                          issues, issue_dependencies, R, e[1], e[2]) = <<TRUE>>
                   /\ e[2] \in issueStore_GetIssueDependencies(
                          issues, issue_dependencies, R, e[1])
                   /\ e[1] \in issueStore_GetIssueDependents(
                          issues, issue_dependencies, R, e[2])
    /\ \A a \in DOMAIN issues :
           LET R == issues[a].repo_id
           IN  /\ issueStore_GetIssueDependencies(issues, issue_dependencies, R, a)
                      = {b \in DepIssueIds : <<a, b>> \in DOMAIN issue_dependencies}
               /\ issueStore_GetIssueDependents(issues, issue_dependencies, R, a)
                      = {b \in DepIssueIds : <<b, a>> \in DOMAIN issue_dependencies}
               /\ \A b \in DepIssueIds :
                      <<a, b>> \notin DOMAIN issue_dependencies =>
                          issueStore_HasIssueDependency(
                              issues, issue_dependencies, R, a, b) = <<FALSE>>

\* Issue a depends on b and on c: the dependencies of a are {b, c} and the
\* dependents of b are {a}.
DependsOnTwo ==
    /\ last.op = "AddIssueDependency" /\ last.result = "ok"
    /\ \E a \in DOMAIN issues : \E b \in DOMAIN issues \ {a} :
           \E c \in DOMAIN issues \ {a, b} :
               /\ issueStore_GetIssueDependencies(
                      issues, issue_dependencies, issues[a].repo_id, a) = {b, c}
               /\ issueStore_GetIssueDependents(
                      issues, issue_dependencies, issues[a].repo_id, b) = {a}
               /\ issueStore_HasIssueDependency(
                      issues, issue_dependencies, issues[a].repo_id, a, c) = <<TRUE>>

\* C18: RemoveIssueDependency(R, a, b) with a an issue of R succeeds whether or
\* not the edge exists, leaves no edge (a, b) and every other edge as it was,
\* so HasIssueDependency(R, a, b) is false afterwards; with a not an issue of
\* R it fails with NotFound and changes nothing; removing twice leaves the
\* table that removing once leaves.
RemoveStep ==
    IsCall("RemoveIssueDependency") =>
        IF InRepo(issues, last'.repo, last'.id)
        THEN /\ last'.result = "ok"
             /\ <<last'.id, last'.dep>> \notin DOMAIN issue_dependencies'
             /\ \A e \in DOMAIN issue_dependencies \ {<<last'.id, last'.dep>>} :
                    EdgeCount(issue_dependencies', e) = issue_dependencies[e]
             /\ DOMAIN issue_dependencies' \subseteq DOMAIN issue_dependencies
             /\ issueStore_HasIssueDependency(issues', issue_dependencies',
                    last'.repo, last'.id, last'.dep) = <<FALSE>>
        ELSE /\ IsNotFound(last'.result)
             /\ issue_dependencies' = issue_dependencies

RemoveTwiceIsRemoveOnce ==
    \A R \in Repos, a \in DepIssueIds, b \in DepIssueIds :
        LET once == issueStore_RemoveIssueDependency(issues, issue_dependencies, R, a, b)
            twice == issueStore_RemoveIssueDependency(issues, once.deps, R, a, b)
        IN  twice = once

RemoveIsIdempotent == []RemoveTwiceIsRemoveOnce /\ [][RemoveStep]_vars

\* An edge that was not there was removed with success, next to an edge of
\* the same issue that stayed.
RemovedAbsentEdge ==
    /\ last.op = "RemoveIssueDependency" /\ last.result = "ok" /\ last.affected = 0
    /\ last.pre # <<>>
    /\ \E e \in DOMAIN issue_dependencies : e[1] = last.id /\ e[2] # last.dep

\* C19: both endpoints of every edge are issues of the table, and the step
\* that deletes an issue leaves no edge that names it, so no query for the
\* dependencies or the dependents of another issue returns it.
DeleteIssueStep ==
    IsCall("DeleteIssue") /\ last'.pre # <<>> =>
        /\ last'.id \notin DOMAIN issues'
        /\ \A e \in DOMAIN issue_dependencies' : e[1] # last'.id /\ e[2] # last'.id
        /\ \A R \in Repos, a \in DepIssueIds :
               /\ last'.id \notin issueStore_GetIssueDependencies(
                      issues', issue_dependencies', R, a)
               /\ last'.id \notin issueStore_GetIssueDependents(
                      issues', issue_dependencies', R, a)
        /\ \A e \in DOMAIN issue_dependencies :
               e[1] # last'.id /\ e[2] # last'.id =>
                   EdgeCount(issue_dependencies', e) = issue_dependencies[e]

DeleteCascadesToEdges ==
    /\ [](\A e \in DOMAIN issue_dependencies :
              e[1] \in DOMAIN issues /\ e[2] \in DOMAIN issues)
    /\ [][DeleteIssueStep]_vars

\* An issue that another issue depended on was deleted and took that edge with
\* it; an edge between two other issues stayed.
DeletedADependency ==
    /\ last.op = "DeleteIssue" /\ last.affected = 1 /\ last.cascaded > 0
    /\ issue_dependencies # <<>>

\* C20: AddIssueDependency(R, a, b) fails with NotFound and leaves the table as
\* it is unless a and b are both issues of R when it runs, and the two issues
\* of every edge belong to one repository.
AddStep ==
    IsCall("AddIssueDependency")
        /\ ~(InRepo(issues, last'.repo, last'.id) /\ InRepo(issues, last'.repo, last'.dep)) =>
            /\ IsNotFound(last'.result)
            /\ issue_dependencies' = issue_dependencies

EdgesWithinOneRepository ==
    /\ [](\A e \in DOMAIN issue_dependencies :
              e[1] \in DOMAIN issues /\ e[2] \in DOMAIN issues =>
                  issues[e[1]].repo_id = issues[e[2]].repo_id)
    /\ [][AddStep]_vars

\* An edge from an issue of R to an issue of another repository was refused
\* with NotFound, while an edge inside R exists.
CrossRepositoryEdgeRefused ==
    /\ last.op = "AddIssueDependency" /\ IsNotFound(last.result) /\ last.pre # <<>>
    /\ last.dep \in DOMAIN issues /\ issues[last.dep].repo_id # last.repo
    /\ <<last.id, last.dep>> \notin DOMAIN issue_dependencies
    /\ \E e \in DOMAIN issue_dependencies : e[1] = last.id

\* C21: for every repository R and state s the list of R filtered by s holds
\* exactly the entities of the unfiltered list of R that are in state s, for
\* issues and for merge requests.
ListByStateFilters ==
    /\ \A R \in Repos, st \in IssueStates :
           Backend_ListIssues(issues, R, <<st>>)
               = {i \in Backend_ListIssues(issues, R, <<>>) : issues[i].state = st}
    /\ \A R \in Repos, st \in MergeRequestStates :
           Backend_ListMergeRequests(merge_requests, R, <<st>>)
               = {i \in Backend_ListMergeRequests(merge_requests, R, <<>>) :
                      merge_requests[i].state = st}

\* Two merge requests of different repositories are both Merged: the list of
\* either repository filtered by Merged holds one of them.
MergedInTwoRepositories ==
    \E i \in DOMAIN merge_requests : \E j \in DOMAIN merge_requests \ {i} :
        /\ merge_requests[i].state = MergeRequestStateMerged
        /\ merge_requests[j].state = MergeRequestStateMerged
        /\ merge_requests[i].repo_id # merge_requests[j].repo_id
        /\ Backend_ListMergeRequests(merge_requests, merge_requests[i].repo_id,
                                     <<MergeRequestStateMerged>>) = {i}

\* C22: UpdateIssue and UpdateMergeRequest for a repository and id that match
\* no row fail with NotFound.
UpdateMissingIsNotFound ==
    last.op \in {"UpdateIssue", "UpdateMergeRequest"} /\ last.pre = <<>> =>
        IsNotFound(last.result)

\* C23: an update of an existing issue or merge request rewrites its title,
\* description and updatedAt and nothing else: every other column of the row,
\* every other row and every dependency edge stay as they are, whatever state
\* the row is in.  As the statement applied to every row of every reachable
\* table, and as the effect of every update step.
UpdateRewritesTitleOnly ==
    /\ \A i \in DOMAIN issues, t \in NewTitles :
           LET tbl == issueStore_UpdateIssue(issues, issues[i].repo_id, i, t, "E", now)
           IN  /\ tbl[i] = [issues[i] EXCEPT !.title = t, !.description = "E",
                                             !.updated_at = now]
               /\ \A j \in DOMAIN issues \ {i} : tbl[j] = issues[j]
               /\ DOMAIN tbl = DOMAIN issues
    /\ \A i \in DOMAIN merge_requests, t \in NewTitles :
           LET tbl == mergeRequestStore_UpdateMergeRequest(
                          merge_requests, merge_requests[i].repo_id, i, t, "E", now)
           IN  /\ tbl[i] = [merge_requests[i] EXCEPT !.title = t, !.description = "E",
                                                     !.updated_at = now]
               /\ \A j \in DOMAIN merge_requests \ {i} : tbl[j] = merge_requests[j]
               /\ DOMAIN tbl = DOMAIN merge_requests

UpdateStep ==
    /\ IsCall("UpdateIssue") =>
           /\ DOMAIN issues' = DOMAIN issues
           /\ \A i \in DOMAIN issues :
                  issues'[i] = [issues[i] EXCEPT !.title = issues'[i].title,
                                                !.description = issues'[i].description,
                                                !.updated_at = issues'[i].updated_at]
           /\ UNCHANGED <<issue_dependencies, merge_requests>>
    /\ IsCall("UpdateMergeRequest") =>
           /\ DOMAIN merge_requests' = DOMAIN merge_requests
           /\ \A i \in DOMAIN merge_requests :
                  merge_requests'[i] =
                      [merge_requests[i] EXCEPT !.title = merge_requests'[i].title,
                                                !.description = merge_requests'[i].description,
                                                !.updated_at = merge_requests'[i].updated_at]
           /\ UNCHANGED <<issue_dependencies, issues>>

UpdateLeavesTheRest == []UpdateRewritesTitleOnly /\ [][UpdateStep]_vars

\* A Merged merge request was updated after its merge: it has the new title
\* and is Merged by the same user as before.
UpdatedAMergedMR ==
    /\ last.op = "UpdateMergeRequest" /\ last.pre = <<MergeRequestStateMerged>>
    /\ last.id \in DOMAIN merge_requests
    /\ merge_requests[last.id].title = "U"
    /\ merge_requests[last.id].state = MergeRequestStateMerged
    /\ merge_requests[last.id].merged_by.Valid
    /\ merge_requests[last.id].updated_at > merge_requests[last.id].merged_at.Time

\* C24: a CreateIssue or CreateMergeRequest that succeeds did not have an
\* empty title (with one it fails with InvalidArgument and inserts nothing).
EmptyTitleIsRejected ==
    /\ last.op = "CreateIssue" /\ last.result = "ok" /\ last.id \in DOMAIN issues =>
           issues[last.id].title # ""
    /\ last.op = "CreateMergeRequest" /\ last.result = "ok"
           /\ last.id \in DOMAIN merge_requests =>
               merge_requests[last.id].title # ""

\* C25: GetIssue and GetMergeRequest return the row of a repository and an id
\* when the table has a row with both, and fail with NotFound otherwise: for
\* an id that is a row of another repository, and for the row a delete has
\* just removed.
GetMatchesRepoAndId ==
    /\ \A R \in Repos, i \in StoredIds :
           LET got == Backend_GetIssue(issues, R, i)
           IN  IF i \in DOMAIN issues /\ issues[i].repo_id = R
               THEN got.err = "ok" /\ got.row = <<issues[i]>>
               ELSE IsNotFound(got.err)
    /\ \A R \in Repos, i \in StoredIds :
           LET got == Backend_GetMergeRequest(merge_requests, R, i)
           IN  IF i \in DOMAIN merge_requests /\ merge_requests[i].repo_id = R
               THEN got.err = "ok" /\ got.row = <<merge_requests[i]>>
               ELSE IsNotFound(got.err)
    /\ last.op = "DeleteIssue" =>
           IsNotFound(Backend_GetIssue(issues, last.repo, last.id).err)
    /\ last.op = "DeleteMergeRequest" =>
           IsNotFound(Backend_GetMergeRequest(merge_requests, last.repo, last.id).err)

\* A merge request was deleted while a merge request of another repository
\* stays: neither repository finds the deleted id, and the repository of the
\* deleted one does not find the other.
DeletedNextToOtherRepository ==
    /\ last.op = "DeleteMergeRequest" /\ last.pre # <<>> /\ last.affected = 1
    /\ \E j \in DOMAIN merge_requests :
           /\ merge_requests[j].repo_id # last.repo
           /\ IsNotFound(Backend_GetMergeRequest(merge_requests, last.repo, j).err)
           /\ Backend_GetMergeRequest(merge_requests, merge_requests[j].repo_id, j).err = "ok"

\* C26: a CreateMergeRequest that fails creates no row, and one that succeeds
\* creates a row whose source and target branch both exist in the repository
\* at that moment, Open, with mergedBy, mergedAt, closedBy and closedAt null.
CreateMergeRequestStep ==
    IsCall("CreateMergeRequest") =>
        IF last'.result = "ok"
        THEN /\ last'.id \notin DOMAIN merge_requests
             /\ DOMAIN merge_requests' = DOMAIN merge_requests \cup {last'.id}
             /\ \A i \in DOMAIN merge_requests : merge_requests'[i] = merge_requests[i]
             /\ LET mr == merge_requests'[last'.id]
                IN  /\ mr.repo_id = last'.repo
                    /\ mr.source_branch \in refs[last'.repo]
                    /\ mr.target_branch \in refs[last'.repo]
                    /\ mr.state = MergeRequestStateOpen
                    /\ mr.merged_by = NullInt64 /\ mr.merged_at = NullTime
                    /\ mr.closed_by = NullInt64 /\ mr.closed_at = NullTime
        ELSE merge_requests' = merge_requests

BranchesCheckedAtCreation == [][CreateMergeRequestStep]_vars

\* The source branch was deleted before any merge request was created: the
\* creation failed on it and the table is empty.
CreationRefusedOnDeletedBranch ==
    /\ last.op = "CreateMergeRequest" /\ last.result = "ErrSourceBranch"
    /\ \E r \in MergeRepos : refs[r] # Branches
    /\ merge_requests = <<>> /\ mrSeq = 0

\* C27: a MergeMergeRequest call that read a state other than Open has returned
\* the error "merge request is not open" in the step that read it: it never
\* stands before a checkout, a merge or the guarded update, made no merge
\* commit and ran no update; and the step that reads such a state leaves the
\* table and the working tree as they are.
NotOpenReadStep ==
    \A c \in Calls :
        calls[c].pc = "idle" /\ calls'[c].read # <<>>
            /\ calls'[c].read # <<MergeRequestStateOpen>> =>
                /\ calls'[c].pc = "done"
                /\ calls'[c].result = "ErrNotOpen"
                /\ UNCHANGED <<merge_requests, HEAD, refs>>

NotOpenIsRefusedBeforeGit ==
    /\ [](\A c \in Calls :
              calls[c].read # <<>> /\ calls[c].read # <<MergeRequestStateOpen>> =>
                  /\ calls[c].pc = "done"
                  /\ calls[c].result = "ErrNotOpen"
                  /\ calls[c].commit = <<>>
                  /\ calls[c].affected = <<>>)
    /\ [][NotOpenReadStep]_vars

\* A call on a Closed merge request returned the error; the merge request is
\* still Closed.
MergeOfClosedRefused ==
    \E c \in Calls :
        /\ Done(c) /\ calls[c].read = <<MergeRequestStateClosed>>
        /\ calls[c].result = "ErrNotOpen"
        /\ Row(c) # <<>> /\ Row(c)[1].state = MergeRequestStateClosed

\* C28: a call stands before its guarded update, or has run it, only after
\* its git merge succeeded, and the merge commit it made merged the source
\* branch of the merge request into its target branch.
MergeCommitPrecedesUpdate ==
    \A c \in Calls :
        calls[c].pc = "update" \/ calls[c].affected # <<>> =>
            /\ calls[c].commit # <<>>
            /\ calls[c].commit[1].source = calls[c].source
            /\ calls[c].commit[1].into = calls[c].target

\* The ordering alone: no guarded update without a git merge that succeeded.
UpdateOnlyAfterMerge ==
    \A c \in Calls :
        calls[c].pc = "update" \/ calls[c].affected # <<>> => calls[c].commit # <<>>

\* C29: the state of a merge request is Open, Merged or Closed, and a step
\* changes it only from Open to Closed by CloseMergeRequest, from Closed to
\* Open by ReopenMergeRequest, or from Open to Merged by the guarded update of
\* a MergeMergeRequest call.
TransitionStep ==
    \A i \in DOMAIN merge_requests \cap DOMAIN merge_requests' :
        merge_requests'[i].state # merge_requests[i].state =>
            \/ /\ merge_requests[i].state = MergeRequestStateOpen
               /\ merge_requests'[i].state = MergeRequestStateClosed
               /\ last'.op = "CloseMergeRequest" /\ last'.id = i
               /\ last'.pre = <<MergeRequestStateOpen>>
            \/ /\ merge_requests[i].state = MergeRequestStateClosed
               /\ merge_requests'[i].state = MergeRequestStateOpen
               /\ last'.op = "ReopenMergeRequest" /\ last'.id = i
               /\ last'.pre = <<MergeRequestStateClosed>>
            \/ /\ merge_requests[i].state = MergeRequestStateOpen
               /\ merge_requests'[i].state = MergeRequestStateMerged
               /\ \E c \in Calls : /\ calls[c].pc = "update" /\ calls'[c].pc = "done"
                                    /\ calls[c].id = i
                                    /\ calls'[c].affected = <<1>>

OnlyThreeTransitions ==
    /\ [](\A i \in DOMAIN merge_requests :
              merge_requests[i].state \in MergeRequestStates)
    /\ [][TransitionStep]_vars

\* A merge request was closed, reopened, and then merged by a call.
ReopenedThenMerged ==
    /\ last.op = "ReopenMergeRequest" /\ last.pre = <<MergeRequestStateClosed>>
    /\ last.id \in DOMAIN merge_requests
    /\ merge_requests[last.id].state = MergeRequestStateMerged
    /\ \E c \in Calls : Done(c) /\ calls[c].id = last.id /\ calls[c].affected = <<1>>

\* C30: the merge commit of a call has the message that is the function of the
\* source branch, the target branch and the acting user; the message names
\* both branches, and it tells the acting user: the commits of two calls for
\* the same branches by different users have different messages.
Range(f) == {f[x] : x \in DOMAIN f}

CommitMessageNamesActor ==
    /\ \A c \in Calls :
           calls[c].commit # <<>> =>
               /\ calls[c].commit[1].msg =
                      commitMsg(calls[c].source, calls[c].target, calls[c].user[1])
               /\ calls[c].source \in Range(calls[c].commit[1].msg)
               /\ calls[c].target \in Range(calls[c].commit[1].msg)
    /\ \A c \in Calls : \A d \in Calls \ {c} :
           calls[c].commit # <<>> /\ calls[d].commit # <<>>
               /\ calls[c].user # calls[d].user =>
                   calls[c].commit[1].msg # calls[d].commit[1].msg

\* C31: HasIssueDependency(R, a, b) fails with NotFound when a is not an issue
\* of R; when a is an issue of R it returns true exactly when the edge (a, b)
\* is in the table, and it returns false without an error when b does not
\* exist or is an issue of another repository.
HasChecksTheIssueOnly ==
    \A R \in Repos : \A a \in DepIssueIds : \A b \in DepIssueIds :
        LET has == issueStore_HasIssueDependency(issues, issue_dependencies, R, a, b)
        IN  IF ~InRepo(issues, R, a)
            THEN has = <<>> /\ IsNotFound(WrapError("sql.ErrNoRows"))
            ELSE /\ has = <<(<<a, b>> \in DOMAIN issue_dependencies)>>
                 /\ ~InRepo(issues, R, b) => has = <<FALSE>>

\* Issue a of R depends on b, and c is an issue of another repository: the
\* call answers true for (a, b), false for (a, c), and fails for (c, a).
HasAnsweredThreeWays ==
    \E a \in DOMAIN issues : \E b \in DOMAIN issues \ {a} :
        \E c \in DOMAIN issues \ {a, b} :
            LET R == issues[a].repo_id
            IN  /\ issues[c].repo_id # R
                /\ issueStore_HasIssueDependency(
                       issues, issue_dependencies, R, a, b) = <<TRUE>>
                /\ issueStore_HasIssueDependency(
                       issues, issue_dependencies, R, a, c) = <<FALSE>>
                /\ issueStore_HasIssueDependency(
                       issues, issue_dependencies, R, c, a) = <<>>

\* C32: AddIssueDependency(R, b, a) for two distinct issues of R succeeds and
\* inserts the edge (b, a) while the edge (a, b) is in the table: no cycle is
\* looked for.
AddReverseEdgeStep ==
    IsCall("AddIssueDependency")
        /\ last'.id # last'.dep
        /\ InRepo(issues, last'.repo, last'.id)
        /\ InRepo(issues, last'.repo, last'.dep)
        /\ <<last'.dep, last'.id>> \in DOMAIN issue_dependencies
        /\ <<last'.id, last'.dep>> \notin DOMAIN issue_dependencies =>
            /\ last'.result = "ok"
            /\ EdgeCount(issue_dependencies', <<last'.id, last'.dep>>) = 1
            /\ EdgeCount(issue_dependencies', <<last'.dep, last'.id>>) = 1

CyclesAreAccepted == [][AddReverseEdgeStep]_vars

\* The edges A -> B, B -> C and C -> A are all in the table.
ThreeCycle ==
    /\ last.op = "AddIssueDependency" /\ last.result = "ok"
    /\ \E a \in DOMAIN issues : \E b \in DOMAIN issues \ {a} :
           \E c \in DOMAIN issues \ {a, b} :
               {<<a, b>>, <<b, c>>, <<c, a>>} \subseteq DOMAIN issue_dependencies

\* C33: in every reachable state the table of dependency edges holds no row
\* with issue_id = depends_on_id and at most one row for an ordered pair
\* (issue_id, depends_on_id).
NoSelfEdgeNoDuplicate ==
    \A e \in DOMAIN issue_dependencies :
        /\ e[1] # e[2]
        /\ EdgeCount(issue_dependencies, e) <= 1
        /\ TotalRows(issue_dependencies) = Cardinality(DOMAIN issue_dependencies)

\* An issue was given as its own dependency while the table held an edge of
\* it: the call failed and the table holds that edge alone.
SelfEdgeRefusedNextToEdge ==
    /\ last.op = "AddIssueDependency" /\ last.id = last.dep
    /\ InRepo(issues, last.repo, last.id) /\ last.result # "ok"
    /\ \E b \in DOMAIN issues \ {last.id} :
           DOMAIN issue_dependencies = {<<last.id, b>>}

\* C34: created_at of a row never changes; a step that changes a row sets its
\* updated_at to the time of the step, and so does every update, close,
\* reopen and merge that matched the row; updated_at never decreases and is
\* never earlier than created_at.
IssueMutators == {"UpdateIssue", "CloseIssue", "ReopenIssue"}
MergeRequestMutators == {"UpdateMergeRequest", "CloseMergeRequest",
                         "ReopenMergeRequest"}

TimestampsOf(tbl, tblNext, t) ==
    \A i \in DOMAIN tbl \cap DOMAIN tblNext :
        /\ tblNext[i].created_at = tbl[i].created_at
        /\ tblNext[i].updated_at >= tbl[i].updated_at
        /\ tblNext[i] # tbl[i] => tblNext[i].updated_at = t

TimestampStep ==
    /\ TimestampsOf(issues, issues', now)
    /\ TimestampsOf(merge_requests, merge_requests', now)
    /\ \A i \in DOMAIN issues' \ DOMAIN issues :
           issues'[i].created_at = now /\ issues'[i].updated_at = now
    /\ \A i \in DOMAIN merge_requests' \ DOMAIN merge_requests :
           merge_requests'[i].created_at = now /\ merge_requests'[i].updated_at = now
    /\ last' # last /\ last'.op \in IssueMutators /\ last'.affected = 1 =>
           issues'[last'.id].updated_at = now
    /\ last' # last /\ last'.op \in MergeRequestMutators /\ last'.affected = 1 =>
           merge_requests'[last'.id].updated_at = now
    /\ \A c \in Calls :
           calls[c].pc = "update" /\ calls'[c].affected = <<1>> =>
               merge_requests'[calls[c].id].updated_at = now

UpdatedAtFollowsTheClock ==
    /\ [](/\ \A i \in DOMAIN issues : issues[i].updated_at >= issues[i].created_at
          /\ \A i \in DOMAIN merge_requests :
                 merge_requests[i].updated_at >= merge_requests[i].created_at)
    /\ [][TimestampStep]_vars

\* An issue created at time 1 was closed and then reopened at time 2.
ReopenedLaterThanCreated ==
    /\ last.op = "ReopenIssue" /\ last.affected = 1
    /\ last.id \in DOMAIN issues
    /\ issues[last.id].created_at = 1 /\ issues[last.id].updated_at = MaxTime
    /\ now = MaxTime

\* C35: the lists are ordered by created_at descending, and an update, close
\* or reopen changes the position of no entity relative to the others: two
\* entities that are in a list of the repository before the call and in one
\* after it come in the same order in both.
Before(q, a, b) ==
    \E i \in DOMAIN q : \E j \in DOMAIN q : i < j /\ q[i] = a /\ q[j] = b

SameRelativeOrder(tbl, ids, tblNext, idsNext) ==
    \A q \in OrderByCreatedAtDesc(tbl, ids) :
        \A qNext \in OrderByCreatedAtDesc(tblNext, idsNext) :
            \A a \in ids \cap idsNext : \A b \in ids \cap idsNext :
                Before(q, a, b) <=> Before(qNext, a, b)

ListOrderStep ==
    /\ last' # last /\ last'.op \in IssueMutators =>
           \A R \in Repos :
               /\ SameRelativeOrder(issues, issueStore_GetIssuesByRepoID(issues, R),
                                    issues', issueStore_GetIssuesByRepoID(issues', R))
               /\ \A st \in IssueStates :
                      SameRelativeOrder(
                          issues, issueStore_GetIssuesByRepoIDAndState(issues, R, st),
                          issues', issueStore_GetIssuesByRepoIDAndState(issues', R, st))
    /\ last' # last /\ last'.op \in MergeRequestMutators =>
           \A R \in Repos :
               /\ SameRelativeOrder(
                      merge_requests,
                      mergeRequestStore_GetMergeRequestsByRepoID(merge_requests, R),
                      merge_requests',
                      mergeRequestStore_GetMergeRequestsByRepoID(merge_requests', R))
               /\ \A st \in MergeRequestStates :
                      SameRelativeOrder(
                          merge_requests,
                          mergeRequestStore_GetMergeRequestsByRepoIDAndState(
                              merge_requests, R, st),
                          merge_requests',
                          mergeRequestStore_GetMergeRequestsByRepoIDAndState(
                              merge_requests', R, st))

ListOrderIgnoresUpdates == [][ListOrderStep]_vars

\* What does hold: the orders the database may return are the same before and
\* after an update, close or reopen, and for rows of different created_at
\* there is one order only.
AdmissibleOrdersStep ==
    /\ last' # last /\ last'.op \in IssueMutators =>
           \A R \in Repos :
               OrderByCreatedAtDesc(issues', issueStore_GetIssuesByRepoID(issues', R))
                   = OrderByCreatedAtDesc(issues, issueStore_GetIssuesByRepoID(issues, R))
    /\ last' # last /\ last'.op \in MergeRequestMutators =>
           \A R \in Repos :
               OrderByCreatedAtDesc(
                   merge_requests',
                   mergeRequestStore_GetMergeRequestsByRepoID(merge_requests', R))
               = OrderByCreatedAtDesc(
                   merge_requests,
                   mergeRequestStore_GetMergeRequestsByRepoID(merge_requests, R))

AdmissibleOrdersKept == [][AdmissibleOrdersStep]_vars

\* C36: a MergeMergeRequest call reads the state once, attempts the checkout
\* and the merge once and the guarded update once, in that order, and every
\* step either goes on to the next or ends the call with its one outcome: a
\* failure ends the call in the step it happens in, no step runs after it,
\* and a call that started ends.
Failures == {"ErrUserNotFound", "ErrContextDone", "ErrRecordNotFound", "ErrNotOpen",
             "ErrOpenRepo", "ErrMergeFailed"}

CallStep ==
    \A c \in Calls :
        calls'[c] # calls[c] =>
            \/ /\ calls[c].pc = "idle"
               /\ \/ calls'[c].pc = "checkout" /\ calls'[c].result = "none"
                     /\ calls'[c].read # <<>>
                  \/ calls'[c].pc = "done" /\ calls'[c].result \in Failures
               /\ calls'[c].commit = <<>> /\ calls'[c].affected = <<>>
            \/ /\ calls[c].pc = "checkout"
               /\ \/ calls'[c] = [calls[c] EXCEPT !.pc = "merge"]
                  \/ \E f \in Failures : calls'[c] = Finish(calls[c], f)
            \/ /\ calls[c].pc = "merge"
               /\ \/ /\ calls'[c].commit # <<>>
                     /\ calls'[c] = [calls[c] EXCEPT !.pc = "update",
                                                     !.commit = calls'[c].commit]
                  \/ \E f \in Failures : calls'[c] = Finish(calls[c], f)
            \/ /\ calls[c].pc = "update"
               /\ \/ /\ calls'[c].affected # <<>>
                     /\ calls'[c] = [Finish(calls[c], "ok") EXCEPT
                                         !.affected = calls'[c].affected]
                  \/ \E f \in Failures : calls'[c] = Finish(calls[c], f)
            \/ /\ calls[c].pc = "done"
               /\ calls'[c] = IdleCall

OneOutcome ==
    \A c \in Calls :
        /\ calls[c].pc \in {"idle", "checkout", "merge", "update", "done"}
        /\ calls[c].result # "none" <=> calls[c].pc = "done"
        /\ calls[c].result \in Failures =>
               calls[c].affected = <<>> /\ calls[c].commit \in {<<>>} \cup
                   (IF calls[c].result = "ErrContextDone" THEN {calls[c].commit} ELSE {})

CallsEnd ==
    \A c \in Calls : calls[c].pc \in {"checkout", "merge", "update"} ~> Done(c)

NoRetries == []OneOutcome /\ [][CallStep]_vars /\ CallsEnd

\* A call read the merge request Open, performMerge failed, and the call ended
\* with that failure: no commit, no update, the merge request still Open.
MergeFailureReturnedOnce ==
    \E c \in Calls :
        /\ Done(c) /\ calls[c].result = "ErrMergeFailed"
        /\ calls[c].read = <<MergeRequestStateOpen>>
        /\ calls[c].commit = <<>> /\ calls[c].affected = <<>>
        /\ Row(c) # <<>> /\ Row(c)[1].state = MergeRequestStateOpen
        /\ HEAD[calls[c].repo] = calls[c].target /\ now = MaxTime

\* C37: a close of an issue or merge request that is not Open, a reopen of one
\* that is not Closed, and the guarded update of a merge call on a merge
\* request that is not Open write nothing: every row, with its closed_by,
\* closed_at, merged_by, merged_at and updated_at, is as it was.
UnmetGuardStep ==
    /\ IsCall("CloseIssue") /\ last'.pre # <<IssueStateOpen>> =>
           UNCHANGED <<issues, issue_dependencies>>
    /\ IsCall("ReopenIssue") /\ last'.pre # <<IssueStateClosed>> =>
           UNCHANGED <<issues, issue_dependencies>>
    /\ IsCall("CloseMergeRequest") /\ last'.pre # <<MergeRequestStateOpen>> =>
           UNCHANGED merge_requests
    /\ IsCall("ReopenMergeRequest") /\ last'.pre # <<MergeRequestStateClosed>> =>
           UNCHANGED merge_requests
    /\ \A c \in Calls :
           calls[c].pc = "update" /\ calls'[c].pc = "done"
               /\ (Row(c) = <<>> \/ Row(c)[1].state # MergeRequestStateOpen) =>
                   UNCHANGED merge_requests

UnmetGuardWritesNothing == [][UnmetGuardStep]_vars

\* An issue closed by user 1 at time 1 was closed again by user 2 at time 2: it
\* is still closed by user 1 at time 1, and last updated at time 1.
ClosedAgainByAnother ==
    /\ last.op = "CloseIssue" /\ last.user = <<2>>
    /\ last.pre = <<IssueStateClosed>> /\ now = 2
    /\ last.id \in DOMAIN issues
    /\ issues[last.id].closed_by = SomeInt64(1)
    /\ issues[last.id].closed_at = SomeTime(1)
    /\ issues[last.id].updated_at = 1

\* C38: an update, close, reopen or delete called with repository R and the id
\* of an issue or merge request of another repository changes no row, a
\* MergeMergeRequest call with such an id ends without a write and without a
\* git command, and the lists of R hold rows of R only.
ListsOfOneRepository ==
    \A R \in Repos :
        /\ \A i \in issueStore_GetIssuesByRepoID(issues, R) : issues[i].repo_id = R
        /\ \A st \in IssueStates :
               \A i \in issueStore_GetIssuesByRepoIDAndState(issues, R, st) :
                   issues[i].repo_id = R
        /\ \A i \in mergeRequestStore_GetMergeRequestsByRepoID(merge_requests, R) :
               merge_requests[i].repo_id = R
        /\ \A st \in MergeRequestStates :
               \A i \in mergeRequestStore_GetMergeRequestsByRepoIDAndState(
                             merge_requests, R, st) :
                   merge_requests[i].repo_id = R

OtherRepositoryStep ==
    /\ last' # last
           /\ last'.op \in IssueMutators \cup {"DeleteIssue"}
           /\ last'.id \in DOMAIN issues
           /\ issues[last'.id].repo_id # last'.repo =>
               UNCHANGED <<issues, issue_dependencies>>
    /\ last' # last
           /\ last'.op \in MergeRequestMutators \cup {"DeleteMergeRequest"}
           /\ last'.id \in DOMAIN merge_requests
           /\ merge_requests[last'.id].repo_id # last'.repo =>
               UNCHANGED merge_requests
    /\ \A c \in Calls :
           calls'[c] # calls[c]
               /\ calls'[c].id \in DOMAIN merge_requests
               /\ merge_requests[calls'[c].id].repo_id # calls'[c].repo =>
                   /\ UNCHANGED <<merge_requests, HEAD>>
                   /\ calls'[c].pc = "done"
                   /\ calls'[c].result \in
                          {"ErrUserNotFound", "ErrContextDone", "ErrRecordNotFound"}
                   /\ calls[c].pc = "idle"

RepositoriesAreIsolated == []ListsOfOneRepository /\ [][OtherRepositoryStep]_vars

\* An issue of one repository was named in a delete under the other
\* repository: it is still there.
DeleteUnderOtherRepository ==
    /\ last.op = "DeleteIssue" /\ last.affected = 0
    /\ last.id \in DOMAIN issues
    /\ issues[last.id].repo_id # last.repo
    /\ issues[last.id].title = "U"

\* C39: CreateIssue, CloseIssue, CreateMergeRequest, CloseMergeRequest and
\* MergeMergeRequest called without a user in the context return
\* ErrUserNotFound, and the call that returns it wrote no row and ran no git
\* command: a close or a merge without a user ends in its first step with
\* that error, and a row that was created has a user as its author.
ActorOps == {"CreateIssue", "CloseIssue", "CreateMergeRequest", "CloseMergeRequest"}

ActorStep ==
    /\ last' # last /\ last'.op \in ActorOps /\ last'.result = "ErrUserNotFound" =>
           UNCHANGED <<dbVars, gitVars>>
    /\ last' # last /\ last'.op \in {"CloseIssue", "CloseMergeRequest"} =>
           (last'.user = <<>> <=> last'.result = "ErrUserNotFound")
    /\ IsCall("CreateIssue") /\ last'.result = "ok" =>
           issues'[last'.id].author_id \in Users
    /\ IsCall("CreateMergeRequest") /\ last'.result = "ok" =>
           merge_requests'[last'.id].author_id \in Users
    /\ \A c \in Calls :
           calls[c].pc = "idle" /\ calls'[c].pc # "idle" /\ calls'[c].user = <<>> =>
               /\ calls'[c].pc = "done" /\ calls'[c].result = "ErrUserNotFound"
               /\ UNCHANGED <<dbVars, gitVars>>

NoUserNoEffect ==
    /\ [](\A c \in Calls :
              /\ calls[c].result = "ErrUserNotFound" <=>
                     calls[c].pc = "done" /\ calls[c].user = <<>>
              /\ calls[c].user = <<>> =>
                     calls[c].read = <<>> /\ calls[c].commit = <<>>
                         /\ calls[c].affected = <<>>)
    /\ [][ActorStep]_vars

\* Without a user, a merge of an Open merge request and then a close of an
\* Open issue were refused: both are still Open.
RefusedWithoutUser ==
    /\ last.op = "CloseIssue" /\ last.result = "ErrUserNotFound"
    /\ last.pre = <<IssueStateOpen>>
    /\ last.id \in DOMAIN issues /\ issues[last.id].state = IssueStateOpen
    /\ \E c \in Calls :
           /\ Done(c) /\ calls[c].result = "ErrUserNotFound"
           /\ Row(c) # <<>> /\ Row(c)[1].state = MergeRequestStateOpen

\* C40: for two issues a and b of one repository R, b is among
\* GetIssueDependencies(R, a) exactly when a is among GetIssueDependents(R, b),
\* and exactly when HasIssueDependency(R, a, b) is true.
QueriesAreDual ==
    \A a \in DOMAIN issues : \A b \in DOMAIN issues :
        issues[a].repo_id = issues[b].repo_id =>
            LET R == issues[a].repo_id
                dependsOn == b \in issueStore_GetIssueDependencies(
                                       issues, issue_dependencies, R, a)
                dependent == a \in issueStore_GetIssueDependents(
                                       issues, issue_dependencies, R, b)
                has == issueStore_HasIssueDependency(
                           issues, issue_dependencies, R, a, b)
            IN  /\ dependsOn <=> dependent
                /\ has = <<dependsOn>>

\* Of an edge and its reverse the reverse was removed: a still depends on b
\* and b no longer depends on a.
OneDirectionLeft ==
    /\ last.op = "RemoveIssueDependency" /\ last.result = "ok" /\ last.affected = 1
    /\ last.id \in DOMAIN issues /\ last.dep \in DOMAIN issues
    /\ LET R == last.repo
           a == last.dep
           b == last.id
       IN  /\ issueStore_GetIssueDependencies(issues, issue_dependencies, R, a) = {b}
           /\ issueStore_GetIssueDependents(issues, issue_dependencies, R, b) = {a}
           /\ issueStore_GetIssueDependencies(issues, issue_dependencies, R, b) = {}
           /\ issueStore_GetIssueDependents(issues, issue_dependencies, R, a) = {}
           /\ issueStore_HasIssueDependency(
                  issues, issue_dependencies, R, a, b) = <<TRUE>>
           /\ issueStore_HasIssueDependency(
                  issues, issue_dependencies, R, b, a) = <<FALSE>>

====
